---- MODULE Spec2Model ----
(***************************************************************************)
(* Packet analyzer: the capture loop and measurement controller (main),    *)
(* the bounded work queue with its worker threads (thread_pool.c) and the  *)
(* process-wide metrics (the metrics section of logger.c).                 *)
(*                                                                         *)
(* Threads: one main thread (controller + capture loop) and the workers.   *)
(* The pool's queue_lock is modelled explicitly; a critical section is one *)
(* step that is taken while holding the lock.  Every access to g_metrics   *)
(* (an atomic read-modify-write or a plain store) is a step of its own     *)
(* where another thread can interleave with it.                            *)
(***************************************************************************)
EXTENDS Integers, Sequences, FiniteSets, TLC

\* ---- bounds of the model ------------------------------------------------
MaxThreads == 2
\* num_threads given to thread_pool_create
MaxQueue == 2
\* max_queue_size given to thread_pool_create
MaxFrames == 3
\* frames the capture source delivers during one invocation
MaxBucket == 2
\* highest latency_histogram bucket that a snapshot given to
\* metrics_percentile_ns fills
MaxObs == 2
\* observations per bucket in such a snapshot
MaxRecords == 2
\* records in the kernel buffer that socket_receive_packet walks
MaxReceives == 4
\* consecutive socket_receive_packet calls on one capture handle
MaxReads == 2
\* kernel buffers that read() delivers to these calls
MaxCalls == 3
\* calls of metrics_observe_latency made by concurrent threads
MaxRuns == 5
\* configured runs (num_runs): per-run values given to median_double and
\* median_uint64, and per-run results given to the judgement
MaxValue == 5
\* largest per-run value given to them

\* ---- program constants --------------------------------------------------
ETHER_IPV4 == 2048
ETHER_IPV6 == 34525
ETHER_ARP == 2054
PROTO_TCP == 6
PROTO_UDP == 17
PROTO_ICMP == 1
PROTO_ICMPV6 == 58
ETH_HDR_LEN == 14
IPV4_HDR_LEN == 20
IPV6_HDR_LEN == 40
TCP_HDR_LEN == 20
UDP_HDR_LEN == 8
INT_MAX == 2147483647
METRICS_HISTOGRAM_BUCKETS == 32
GEN_STOP_WAIT_US == 200000
\* usleep(200000) in traffic_generator_stop
DRAIN_US == 500000
\* usleep(500000) after metrics_stop_capture
SEC_US == 1000000
\* one second of the monotonic clock, which the model counts in microseconds
MIN_ELAPSED_US == 1000
\* elapsed < 0.001 is raised to 0.001 seconds
MIN_PACKETS_DEFAULT == 200
TRAFFIC_RATE_DEFAULT == 50
REGRESSION_THRESHOLD_DEFAULT == [num |-> 10, den |-> 100]
\* 0.10
EXIT_REGRESSION == 2
EXIT_INSUFFICIENT_SAMPLE == 3
EXIT_CONFIG_MISMATCH == 4
actual_measure_sec == 1
\* the measurement period of a run, in seconds

Workers == 1..MaxThreads
MAIN == 0
\* owner value of queue_lock when the main thread holds it
FREE == -1
\* owner value of queue_lock when nobody holds it

\* A captured frame: id is the arrival number over the invocation, warm
\* tells whether the capture loop received it before warmup_complete was
\* set, len/ethertype/protocol are the bytes the decoder looks at.
\* latency_ns is what the worker computes as now_ns - capture_ts_ns for the
\* frame (thread_pool.c line 61); packet_create never writes capture_ts_ns,
\* so the difference is whatever the allocation held.  stamped tells whether
\* capture_ts_ns was written after the allocation of the packet.
NoFrame == [id |-> 0, len |-> 0, ethertype |-> 0, protocol |-> 0, warm |-> FALSE,
            latency_ns |-> 0, stamped |-> FALSE]

\* Frames the capture source can deliver: one shorter than an Ethernet
\* header, and an IPv4/TCP frame.
ShortFrame == [len |-> 10, ethertype |-> 0, protocol |-> 0, latency_ns |-> 999]
TcpFrame == [len |-> 60, ethertype |-> ETHER_IPV4, protocol |-> PROTO_TCP,
             latency_ns |-> 1000]

VARIABLES
    \* configuration (command line)
    num_runs, warmup_sec, max_packets, source, thread_pool, traffic_mode,
    socket_down,
    \* regression gate: --min-packets, --baseline ("" when not given) and the
    \* file found at that path, --fail-on-regression, --regression-threshold
    \* (a fraction num/den), and the metadata of this invocation
    min_packets, baseline_path, baseline_file, fail_on_regression,
    regression_threshold, g_metadata,
    \* environment: the monotonic clock and the traffic generator child
    clock, traffic_pid,
    \* main thread
    mainpc, run_idx, warmup_complete, run_is_running, is_running,
    packets_captured, seq, pkt, enq_ret, run_snapshot, run_results,
    \* main thread, judgement: the medians logged as the aggregated results,
    \* the exit code and the lines reported
    aggregate, exit_code, report,
    \* thread pool
    queue, queue_size, pool_is_running, queue_lock, pool_packets_processed,
    pool_freed, cleanup_freed, freed_touched,
    \* workers
    wpc, item, wtmp,
    \* metrics
    g_metrics,
    \* the packets allocated by packet_create: for each frame id the number of
    \* times packet_free was called on its packet
    heap,
    \* the library function under examination: its arguments and its result
    call

\* written before the run loop starts and never after
cfgvars == <<num_runs, warmup_sec, max_packets, source, thread_pool,
             traffic_mode, socket_down, min_packets, baseline_path,
             baseline_file, fail_on_regression, regression_threshold,
             g_metadata>>
judgevars == <<aggregate, exit_code, report>>
envvars == <<clock, traffic_pid>>
mainvars == <<mainpc, run_idx, warmup_complete, run_is_running, is_running,
              packets_captured, seq, pkt, enq_ret, run_snapshot, run_results>>
poolvars == <<queue, queue_size, pool_is_running, queue_lock,
              pool_packets_processed, pool_freed, cleanup_freed, freed_touched>>
workervars == <<wpc, item, wtmp>>
vars == <<cfgvars, judgevars, envvars, mainvars, poolvars, workervars,
          g_metrics, heap, call>>

\* ---- metrics (logger.c, metrics section) --------------------------------
\* latency_histogram[0..31] is written down as a function on the buckets
\* that are not zero; every other bucket of the array holds 0.
ZeroMetrics ==
    [ pkts_captured |-> 0, pkts_processed |-> 0,
      bytes_captured |-> 0, bytes_processed |-> 0,
      parse_errors |-> 0, queue_drops |-> 0, capture_drops |-> 0,
      ether_ipv4 |-> 0, ether_ipv6 |-> 0, ether_arp |-> 0, ether_other |-> 0,
      proto_tcp |-> 0, proto_udp |-> 0, proto_icmp |-> 0, proto_other |-> 0,
      queue_depth_max |-> 0, latency_count |-> 0, latency_sum_ns |-> 0,
      latency_max_ns |-> 0,
      latency_histogram |-> [i \in {} |-> 0],
      start_time_ns |-> 0, capture_end_time_ns |-> 0 ]

\* metrics_init: memset and the stores each leave every field zero
metrics_init(m) == ZeroMetrics

\* metrics_now_ns: CLOCK_MONOTONIC, which is positive
metrics_now_ns == clock

metrics_start(m) == [m EXCEPT !.start_time_ns = metrics_now_ns]

metrics_stop_capture(m) == [m EXCEPT !.capture_end_time_ns = metrics_now_ns]

metrics_is_active(m) == m.start_time_ns > 0

metrics_inc_captured(m, bytes) ==
    [m EXCEPT !.pkts_captured = @ + 1, !.bytes_captured = @ + bytes]

metrics_inc_processed(m, bytes) ==
    [m EXCEPT !.pkts_processed = @ + 1, !.bytes_processed = @ + bytes]

metrics_inc_queue_drops(m) == [m EXCEPT !.queue_drops = @ + 1]

\* metrics_inc_parse_errors: defined in logger.c, called from nowhere
metrics_inc_parse_errors(m) == [m EXCEPT !.parse_errors = @ + 1]

\* metrics_inc_capture_drops: defined in logger.c, called from nowhere
metrics_inc_capture_drops(m) == [m EXCEPT !.capture_drops = @ + 1]

metrics_update_queue_depth_max(m, depth) ==
    IF depth > m.queue_depth_max THEN [m EXCEPT !.queue_depth_max = depth] ELSE m

metrics_record_ethertype(m, ethertype) ==
    CASE ethertype = ETHER_IPV4 -> [m EXCEPT !.ether_ipv4 = @ + 1]
      [] ethertype = ETHER_IPV6 -> [m EXCEPT !.ether_ipv6 = @ + 1]
      [] ethertype = ETHER_ARP -> [m EXCEPT !.ether_arp = @ + 1]
      [] OTHER -> [m EXCEPT !.ether_other = @ + 1]

metrics_record_protocol(m, protocol) ==
    CASE protocol = PROTO_TCP -> [m EXCEPT !.proto_tcp = @ + 1]
      [] protocol = PROTO_UDP -> [m EXCEPT !.proto_udp = @ + 1]
      [] protocol \in {PROTO_ICMP, PROTO_ICMPV6} -> [m EXCEPT !.proto_icmp = @ + 1]
      [] OTHER -> [m EXCEPT !.proto_other = @ + 1]

\* latency_bucket, lines 361-366: shift val right until it is 1 or the last
\* bucket is reached
RECURSIVE HighestBit(_, _)
HighestBit(val, bucket) ==
    IF val > 1 /\ bucket < METRICS_HISTOGRAM_BUCKETS - 1
      THEN HighestBit(val \div 2, bucket + 1)
      ELSE bucket

latency_bucket(latency_ns) ==
    IF latency_ns = 0 THEN 0
    ELSE IF latency_ns \div 1000 = 0 THEN 0
    ELSE HighestBit(latency_ns \div 1000, 0)

\* latency_histogram[i]
histogram_at(m, i) ==
    IF i \in DOMAIN m.latency_histogram THEN m.latency_histogram[i] ELSE 0

\* the sum of the latency_histogram buckets 0..i
RECURSIVE HistogramSum(_, _)
HistogramSum(m, i) ==
    IF i < 0 THEN 0 ELSE histogram_at(m, i) + HistogramSum(m, i - 1)

\* metrics_observe_latency, line 373: atomic_fetch_add of latency_count
observe_latency_count(m) == [m EXCEPT !.latency_count = @ + 1]

\* metrics_observe_latency, line 376: atomic_fetch_add of latency_sum_ns
observe_latency_sum(m, latency_ns) == [m EXCEPT !.latency_sum_ns = @ + latency_ns]

\* a compare-exchange that stores without comparing
compare_exchange_Blind(m, expected, desired) ==
    [ok |-> TRUE, m |-> [m EXCEPT !.latency_max_ns = desired], expected |-> expected]

\* atomic_compare_exchange_weak(&g_metrics.latency_max_ns, &expected, desired):
\* stores desired and returns true when the value is the expected one,
\* otherwise writes the value it found to expected and returns false
atomic_compare_exchange_weak(m, expected, desired) ==
    IF m.latency_max_ns = expected
      THEN [ok |-> TRUE, m |-> [m EXCEPT !.latency_max_ns = desired],
            expected |-> expected]
      ELSE [ok |-> FALSE, m |-> m, expected |-> m.latency_max_ns]

\* metrics_observe_latency, lines 379-385: the compare-exchange loop that
\* raises latency_max_ns, with no other thread in between
observe_latency_max(m, latency_ns) ==
    IF latency_ns > m.latency_max_ns
      THEN atomic_compare_exchange_weak(m, m.latency_max_ns, latency_ns).m ELSE m

\* metrics_observe_latency, lines 388-389: atomic_fetch_add of the bucket
observe_latency_bucket(m, latency_ns) ==
    LET bucket == latency_bucket(latency_ns)
    IN  [m EXCEPT !.latency_histogram =
           [i \in DOMAIN m.latency_histogram \cup {bucket} |->
              IF i = bucket THEN histogram_at(m, bucket) + 1
              ELSE m.latency_histogram[i]]]

\* metrics_observe_latency with no other thread in between
metrics_observe_latency(m, latency_ns) ==
    observe_latency_bucket(
        observe_latency_max(
            observe_latency_sum(observe_latency_count(m), latency_ns),
            latency_ns),
        latency_ns)

\* 1ULL << i
RECURSIVE Pow2(_)
Pow2(i) == IF i = 0 THEN 1 ELSE 2 * Pow2(i - 1)

\* metrics_percentile_ns lines 535-541: the midpoint of bucket i in ns
BucketMidpoint(i) ==
    IF i = 0 THEN 500 ELSE ((Pow2(i - 1) + Pow2(i)) \div 2) * 1000

\* metrics_percentile_ns lines 530-545: the walk over the buckets
RECURSIVE PercentileWalk(_, _, _, _)
PercentileWalk(snapshot, target_count, i, cumulative) ==
    IF i >= METRICS_HISTOGRAM_BUCKETS THEN snapshot.latency_max_ns
    ELSE LET c == cumulative + histogram_at(snapshot, i)
         IN  IF c >= target_count THEN BucketMidpoint(i)
             ELSE PercentileWalk(snapshot, target_count, i + 1, c)

\* metrics_percentile_ns(snapshot, percentile), the percentile given as the
\* fraction pnum/pden; line 527 converts latency_count * percentile to
\* uint64_t, which drops the fractional part
metrics_percentile_ns(snapshot, pnum, pden) ==
    IF snapshot.latency_count = 0 THEN 0
    ELSE PercentileWalk(snapshot, (snapshot.latency_count * pnum) \div pden, 0, 0)

\* metrics_metadata_t after memset(0)
ZeroMeta ==
    [ valid |-> FALSE, interface |-> "", filter |-> "", os |-> "", git_sha |-> "",
      threads |-> 0, bpf_buffer_size |-> 0, duration_sec |-> 0, warmup_sec |-> 0,
      traffic_mode |-> "", traffic_target |-> "", traffic_rate |-> 0 ]

\* metrics_set_metadata: a NULL filter or traffic mode (written "") is stored
\* as "none"; os and git_sha come from uname and the build
metrics_set_metadata(interface, filter, threads, bpf, duration, warmup, mode, target, rate) ==
    [ valid |-> TRUE, interface |-> interface,
      filter |-> IF filter = "" THEN "none" ELSE filter,
      os |-> "Linux", git_sha |-> "abc123",
      threads |-> threads, bpf_buffer_size |-> bpf,
      duration_sec |-> duration, warmup_sec |-> warmup,
      traffic_mode |-> IF mode = "" THEN "none" ELSE mode,
      traffic_target |-> target, traffic_rate |-> rate ]

\* ---- decoder (packet_parse) ---------------------------------------------
\* packet->ethernet != NULL after packet_parse
HasEthernet(f) == f.len >= ETH_HDR_LEN

\* packet->ipv4 != NULL after packet_parse
HasIpv4(f) ==
    HasEthernet(f) /\ f.ethertype = ETHER_IPV4 /\ f.len - ETH_HDR_LEN >= IPV4_HDR_LEN

\* packet->packet_length - offset >= size, the subtraction in uint32_t: when
\* offset is above the length the difference wraps to 2^32 - (offset - len)
RemainingAtLeast(len, offset, size) ==
    IF offset <= len THEN len - offset >= size
    ELSE (len - offset) + INT_MAX >= (size - INT_MAX) - 2

\* the bytes [offset, offset + size) lie within the len captured bytes
InBounds(len, offset, size) == offset + size <= len

\* packet_parse of a frame of p.len captured bytes with ethertype
\* p.ethertype, IHL nibble p.ihl, IPv4 protocol p.protocol and TCP data
\* offset nibble doff: the headers it allocates, the byte ranges memcpy
\* reads from raw_data, and the final offset
packet_parse(p, doff) ==
    LET eth == HasEthernet(p)
        ipv4 == HasIpv4(p)
        ihl == (p.ihl % 16) * 4
        off1 == ETH_HDR_LEN + ihl
        tcp == ipv4 /\ p.protocol = PROTO_TCP /\ RemainingAtLeast(p.len, off1, TCP_HDR_LEN)
        udp == ipv4 /\ ~tcp /\ p.protocol = PROTO_UDP
                 /\ RemainingAtLeast(p.len, off1, UDP_HDR_LEN)
        offset == IF ~eth THEN 0
                  ELSE IF ~ipv4 THEN ETH_HDR_LEN
                  ELSE IF tcp THEN off1 + (doff % 16) * 4
                  ELSE IF udp THEN off1 + UDP_HDR_LEN
                  ELSE off1
    IN  [ ethernet |-> eth, ipv4 |-> ipv4, tcp |-> tcp, udp |-> udp,
          l4_offset |-> off1, offset |-> offset,
          reads |-> (IF eth THEN {<<0, ETH_HDR_LEN>>} ELSE {})
                    \cup (IF ipv4 THEN {<<ETH_HDR_LEN, IPV4_HDR_LEN>>} ELSE {})
                    \cup (IF tcp THEN {<<off1, TCP_HDR_LEN>>} ELSE {})
                    \cup (IF udp THEN {<<off1, UDP_HDR_LEN>>} ELSE {})
                    \cup (IF eth /\ offset < p.len
                            THEN {<<offset, p.len - offset>>} ELSE {}) ]

\* median_pps, median_mbps and median_p95 before line 814 computes them
NoAggregate ==
    [ median_pps |-> [num |-> 0, den |-> 1], median_mbps |-> [num |-> 0, den |-> 1],
      median_p95 |-> 0 ]

\* no library function is under examination
NoCall == [fn |-> "none"]

\* ---- packets (packet.c) -----------------------------------------------------
\* packet_create: malloc of the packet and of its raw_data for the frame id
packet_create(h, id) == [i \in DOMAIN h \cup {id} |-> IF i = id THEN 0 ELSE h[i]]

\* packet_free: free of the packet's buffers and of the packet
packet_free(h, id) == [h EXCEPT ![id] = @ + 1]

\* thread_pool_destroy lines 132-138: packet_free of every queued packet
RECURSIVE FreeQueued(_, _)
FreeQueued(h, q) ==
    IF q = <<>> THEN h ELSE FreeQueued(packet_free(h, Head(q).id), Tail(q))

\* ---- initial state -------------------------------------------------------
\* the state after thread_pool_create (main line 603), before the run loop
Booted ==
    /\ thread_pool = 1
    /\ clock = 1
    /\ traffic_pid = -1
    /\ mainpc = "run_check"
    /\ run_idx = 0
    /\ warmup_complete = FALSE
    /\ run_is_running = 1
    /\ is_running = 1
    /\ packets_captured = 0
    /\ seq = 0
    /\ pkt = NoFrame
    /\ enq_ret = 0
    /\ run_snapshot = ZeroMetrics
    /\ run_results = <<>>
    /\ aggregate = NoAggregate
    /\ exit_code = 0
    /\ report = {}
    /\ queue = <<>>
    /\ queue_size = 0
    /\ pool_is_running = 1
    /\ queue_lock = FREE
    /\ pool_packets_processed = 0
    /\ pool_freed = FALSE
    /\ cleanup_freed = 0
    /\ freed_touched = FALSE
    /\ wpc = [w \in Workers |-> "top"]
    /\ item = [w \in Workers |-> NoFrame]
    /\ wtmp = [w \in Workers |-> 0]
    /\ g_metrics = ZeroMetrics
    /\ heap = <<>>

\* the program as it runs: no library function is examined on its own
Start == Booted /\ call = NoCall

\* no file at the baseline path
NoFile == [exists |-> FALSE]

\* lines 633-643: the metadata of this invocation, for interface eth0 without
\* --icmp; the generator's default target and rate
CurrentMeta ==
    metrics_set_metadata("eth0", "none", MaxThreads, 0, actual_measure_sec,
                         warmup_sec,
                         IF traffic_mode = "none" THEN "" ELSE traffic_mode,
                         "8.8.8.8",
                         IF traffic_mode = "none" THEN 0 ELSE TRAFFIC_RATE_DEFAULT)

\* an invocation without a regression gate: --min-packets 0, no --baseline
Ungated ==
    /\ min_packets = 0
    /\ baseline_path = ""
    /\ baseline_file = NoFile
    /\ fail_on_regression = 0
    /\ regression_threshold = REGRESSION_THRESHOLD_DEFAULT
    /\ g_metadata = CurrentMeta

\* the process is alive: no thread takes a step after a crash of the process
Alive == mainpc # "crashed"

\* ---- worker thread (thread_worker) ---------------------------------------
\* line 12: while (pool->is_running), read without the lock.  The read races
\* with the store in thread_pool_destroy: once the flag is 0 the worker may
\* still see the old value, and then goes on to take the lock.
W_top(w) ==
    /\ Alive /\ wpc[w] = "top"
    /\ \E seen \in (IF pool_is_running = 1 THEN {1} ELSE {0, 1}) :
          wpc' = [wpc EXCEPT ![w] = IF seen = 1 THEN "lock" ELSE "exited"]
    /\ UNCHANGED <<cfgvars, judgevars, heap, envvars, call, mainvars, poolvars, item, wtmp, g_metrics>>

\* line 13 pthread_mutex_lock, and the re-acquisition of the mutex inside
\* pthread_cond_wait (line 16) after a wake-up
W_lock(w) ==
    /\ Alive /\ wpc[w] = "lock" /\ queue_lock = FREE
    /\ queue_lock' = w
    /\ wpc' = [wpc EXCEPT ![w] = "check"]
    /\ UNCHANGED <<cfgvars, judgevars, heap, envvars, call, mainvars, queue, queue_size, pool_is_running,
                   pool_packets_processed, pool_freed, cleanup_freed,
                   freed_touched, item, wtmp, g_metrics>>

\* line 15: the condition of the wait loop
MustWait == queue = <<>> /\ pool_is_running = 1

\* a shutdown test that lets a worker leave only when the queue is empty
ShutdownSeen_Drain == pool_is_running = 0 /\ queue = <<>>

\* line 19: if (!pool->is_running)
ShutdownSeen == pool_is_running = 0

\* lines 15-31, holding the lock: wait, leave, or unlink the head
W_check(w) ==
    /\ Alive /\ wpc[w] = "check" /\ queue_lock = w
    /\ queue_lock' = FREE
    /\ IF MustWait
         THEN /\ wpc' = [wpc EXCEPT ![w] = "waiting"]
              /\ UNCHANGED <<queue, queue_size, item>>
         ELSE IF ShutdownSeen
         THEN /\ wpc' = [wpc EXCEPT ![w] = "exited"]
              /\ UNCHANGED <<queue, queue_size, item>>
         ELSE /\ item' = [item EXCEPT ![w] = Head(queue)]
              /\ queue' = Tail(queue)
              /\ queue_size' = queue_size - 1
              /\ wpc' = [wpc EXCEPT ![w] = "parse"]
    /\ UNCHANGED <<cfgvars, judgevars, heap, envvars, call, mainvars, pool_is_running, pool_packets_processed,
                   pool_freed, cleanup_freed, freed_touched, wtmp, g_metrics>>

\* a wake-up of pthread_cond_wait that no signal caused
W_spurious(w) ==
    /\ Alive /\ wpc[w] = "waiting"
    /\ wpc' = [wpc EXCEPT ![w] = "lock"]
    /\ UNCHANGED <<cfgvars, judgevars, heap, envvars, call, mainvars, poolvars, item, wtmp, g_metrics>>

\* lines 34-37: packet_parse, packet_print, and the load of
\* pool->packets_processed++ (not atomic, not under the lock)
W_parse(w) ==
    /\ Alive /\ wpc[w] = "parse"
    /\ wtmp' = [wtmp EXCEPT ![w] = pool_packets_processed]
    /\ wpc' = [wpc EXCEPT ![w] = "count"]
    /\ UNCHANGED <<cfgvars, judgevars, heap, envvars, call, mainvars, poolvars, item, g_metrics>>

\* line 37: the store of pool->packets_processed++
W_count(w) ==
    /\ Alive /\ wpc[w] = "count"
    /\ pool_packets_processed' = wtmp[w] + 1
    /\ wtmp' = [wtmp EXCEPT ![w] = 0]
    /\ wpc' = [wpc EXCEPT ![w] = "active"]
    /\ UNCHANGED <<cfgvars, judgevars, heap, envvars, call, mainvars, queue, queue_size, pool_is_running,
                   queue_lock, pool_freed, cleanup_freed, freed_touched,
                   item, g_metrics>>

\* lines 34-37 as one step: packet_parse, packet_print and the whole of
\* pool->packets_processed++
W_decode(w) ==
    /\ Alive /\ wpc[w] = "parse"
    /\ pool_packets_processed' = pool_packets_processed + 1
    /\ wpc' = [wpc EXCEPT ![w] = "active"]
    /\ UNCHANGED <<cfgvars, judgevars, heap, envvars, call, mainvars, queue, queue_size, pool_is_running,
                   queue_lock, pool_freed, cleanup_freed, freed_touched,
                   item, wtmp, g_metrics>>

\* line 40: if (metrics_is_active()), then line 42: ethernet != NULL;
\* when metrics are not active the item is freed (line 71)
W_active(w) ==
    /\ Alive /\ wpc[w] = "active"
    /\ IF metrics_is_active(g_metrics)
         THEN /\ wpc' = [wpc EXCEPT ![w] =
                           IF HasEthernet(item[w]) THEN "ether" ELSE "latency"]
              /\ item' = item
         ELSE /\ wpc' = [wpc EXCEPT ![w] = "top"]
              /\ item' = [item EXCEPT ![w] = NoFrame]
    /\ UNCHANGED <<cfgvars, judgevars, heap, envvars, call, mainvars, poolvars, wtmp, g_metrics>>

\* lines 44-52: metrics_record_ethertype, then the choice of the L4 branch
W_ether(w) ==
    /\ Alive /\ wpc[w] = "ether"
    /\ g_metrics' = metrics_record_ethertype(g_metrics, item[w].ethertype)
    /\ wpc' = [wpc EXCEPT ![w] =
                 IF \/ item[w].ethertype = ETHER_IPV4 /\ HasIpv4(item[w])
                    \/ /\ item[w].ethertype = ETHER_IPV6
                       /\ item[w].len >= ETH_HDR_LEN + IPV6_HDR_LEN
                 THEN "proto" ELSE "latency"]
    /\ UNCHANGED <<cfgvars, judgevars, heap, envvars, call, mainvars, poolvars, item, wtmp>>

\* lines 50, 55: metrics_record_protocol
W_proto(w) ==
    /\ Alive /\ wpc[w] = "proto"
    /\ g_metrics' = metrics_record_protocol(g_metrics, item[w].protocol)
    /\ wpc' = [wpc EXCEPT ![w] = "latency"]
    /\ UNCHANGED <<cfgvars, judgevars, heap, envvars, call, mainvars, poolvars, item, wtmp>>

\* lines 60-62: metrics_observe_latency
W_latency(w) ==
    /\ Alive /\ wpc[w] = "latency"
    /\ g_metrics' = metrics_observe_latency(g_metrics, item[w].latency_ns)
    /\ wpc' = [wpc EXCEPT ![w] = "processed"]
    /\ UNCHANGED <<cfgvars, judgevars, heap, envvars, call, mainvars, poolvars, item, wtmp>>

\* line 65: metrics_inc_processed, then line 71: free(item)
W_processed(w) ==
    /\ Alive /\ wpc[w] = "processed"
    /\ g_metrics' = metrics_inc_processed(g_metrics, item[w].len)
    /\ wpc' = [wpc EXCEPT ![w] = "top"]
    /\ item' = [item EXCEPT ![w] = NoFrame]
    /\ UNCHANGED <<cfgvars, judgevars, heap, envvars, call, mainvars, poolvars, wtmp>>

\* lines 40-66 for one frame: what the worker records when metrics are active
RecordFrame(m, f) ==
    LET m1 == IF HasEthernet(f) THEN metrics_record_ethertype(m, f.ethertype) ELSE m
        m2 == IF /\ HasEthernet(f)
                 /\ \/ f.ethertype = ETHER_IPV4 /\ HasIpv4(f)
                    \/ f.ethertype = ETHER_IPV6 /\ f.len >= ETH_HDR_LEN + IPV6_HDR_LEN
              THEN metrics_record_protocol(m1, f.protocol) ELSE m1
    IN  metrics_inc_processed(metrics_observe_latency(m2, f.latency_ns), f.len)

\* lines 33-71 as one step: parse, count, record when active, free(item)
W_process(w) ==
    /\ Alive /\ wpc[w] = "parse"
    /\ pool_packets_processed' = pool_packets_processed + 1
    /\ g_metrics' = IF metrics_is_active(g_metrics)
                      THEN RecordFrame(g_metrics, item[w]) ELSE g_metrics
    /\ item' = [item EXCEPT ![w] = NoFrame]
    /\ wpc' = [wpc EXCEPT ![w] = "top"]
    /\ UNCHANGED <<cfgvars, judgevars, heap, envvars, call, mainvars, queue, queue_size, pool_is_running,
                   queue_lock, pool_freed, cleanup_freed, freed_touched, wtmp>>

\* lines 40-57: what the worker records before metrics_observe_latency
RecordHeaders(m, f) ==
    LET m1 == IF HasEthernet(f) THEN metrics_record_ethertype(m, f.ethertype) ELSE m
    IN  IF /\ HasEthernet(f)
           /\ \/ f.ethertype = ETHER_IPV4 /\ HasIpv4(f)
              \/ f.ethertype = ETHER_IPV6 /\ f.len >= ETH_HDR_LEN + IPV6_HDR_LEN
          THEN metrics_record_protocol(m1, f.protocol) ELSE m1

\* lines 33-61 and metrics_observe_latency up to its histogram update
\* (logger.c lines 373-385): parse, count, and when metrics are active the
\* header counters, latency_count and latency_max_ns; otherwise free(item)
W_observe_count(w) ==
    /\ Alive /\ wpc[w] = "parse"
    /\ pool_packets_processed' = pool_packets_processed + 1
    /\ IF metrics_is_active(g_metrics)
         THEN /\ g_metrics' = observe_latency_max(
                                 observe_latency_sum(
                                   observe_latency_count(RecordHeaders(g_metrics, item[w])),
                                   item[w].latency_ns),
                                 item[w].latency_ns)
              /\ wpc' = [wpc EXCEPT ![w] = "histogram"]
              /\ item' = item
         ELSE /\ g_metrics' = g_metrics
              /\ wpc' = [wpc EXCEPT ![w] = "top"]
              /\ item' = [item EXCEPT ![w] = NoFrame]
    /\ UNCHANGED <<cfgvars, judgevars, heap, envvars, call, mainvars, queue, queue_size,
                   pool_is_running, queue_lock, pool_freed, cleanup_freed,
                   freed_touched, wtmp>>

\* the last atomic of metrics_observe_latency (logger.c lines 388-389), then
\* thread_pool.c lines 65-71: metrics_inc_processed, free(item)
W_observe_bucket(w) ==
    /\ Alive /\ wpc[w] = "histogram"
    /\ g_metrics' = metrics_inc_processed(
                       observe_latency_bucket(g_metrics, item[w].latency_ns),
                       item[w].len)
    /\ wpc' = [wpc EXCEPT ![w] = "top"]
    /\ item' = [item EXCEPT ![w] = NoFrame]
    /\ UNCHANGED <<cfgvars, judgevars, heap, envvars, call, mainvars, poolvars, wtmp>>

\* lines 40-71 as one step: the recording when metrics are active, free(item)
W_record(w) ==
    /\ Alive /\ wpc[w] = "active"
    /\ g_metrics' = IF metrics_is_active(g_metrics)
                      THEN RecordFrame(g_metrics, item[w]) ELSE g_metrics
    /\ item' = [item EXCEPT ![w] = NoFrame]
    /\ wpc' = [wpc EXCEPT ![w] = "top"]
    /\ UNCHANGED <<cfgvars, judgevars, heap, envvars, call, mainvars, poolvars, wtmp>>

\* the queue side of a worker
WorkerQueue(w) ==
    \/ W_top(w) \/ W_lock(w) \/ W_check(w) \/ W_spurious(w)

\* the recording side of a worker, one step per shared access
WorkerRecord(w) ==
    \/ W_decode(w) \/ W_active(w)
    \/ W_ether(w) \/ W_proto(w) \/ W_latency(w) \/ W_processed(w)

\* ---- main thread: measurement controller and capture loop (main) --------
Waiting == {w \in Workers : wpc[w] = "waiting"}

\* a signal that wakes nobody
cond_signal_Lost(pc, w) == pc

\* pthread_cond_signal: one of the waiting workers, if any, is woken
cond_signal(pc, w) == [pc EXCEPT ![w] = "lock"]

\* a broadcast that wakes one waiting worker only, as a signal does
cond_broadcast_One(pc) ==
    [w \in Workers |->
       IF pc[w] = "waiting" /\ \A v \in Workers : pc[v] = "waiting" => w <= v
       THEN "lock" ELSE pc[w]]

\* pthread_cond_broadcast: every waiting worker is woken
cond_broadcast(pc) == [w \in Workers |-> IF pc[w] = "waiting" THEN "lock" ELSE pc[w]]

\* line 646: run_idx < num_runs && is_running
RunLoopCond == run_idx < num_runs /\ is_running = 1

\* line 646: for (run_idx = 0; run_idx < num_runs && is_running; run_idx++)
M_run_check ==
    /\ mainpc = "run_check"
    /\ mainpc' = IF RunLoopCond
                   THEN "run_memset" ELSE "aggregate"
    /\ UNCHANGED <<cfgvars, judgevars, heap, envvars, call, run_idx, warmup_complete, run_is_running, is_running,
                   packets_captured, seq, pkt, enq_ret, run_snapshot, run_results,
                   poolvars, workervars, g_metrics>>

\* line 652, metrics_init: the memset
M_run_memset ==
    /\ mainpc = "run_memset"
    /\ g_metrics' = metrics_init(g_metrics)
    /\ mainpc' = "run_stores"
    /\ UNCHANGED <<cfgvars, judgevars, heap, envvars, call, run_idx, warmup_complete, run_is_running, is_running,
                   packets_captured, seq, pkt, enq_ret, run_snapshot, run_results,
                   poolvars, workervars>>

\* traffic_generator_start: with a traffic mode, fork a generator child
traffic_generator_start == IF traffic_mode # "none" THEN 1 ELSE traffic_pid

\* line 652, metrics_init: the stores; lines 653-665: the run's locals;
\* lines 669-671: traffic_generator_start
M_run_stores ==
    /\ mainpc = "run_stores"
    /\ g_metrics' = metrics_init(g_metrics)
    /\ packets_captured' = 0
    /\ warmup_complete' = (warmup_sec <= 0)
    /\ run_is_running' = 1
    /\ traffic_pid' = traffic_generator_start
    /\ mainpc' = IF warmup_sec > 0 THEN "loop_top" ELSE "run_start"
    /\ UNCHANGED <<cfgvars, judgevars, heap, clock, call, run_idx, is_running, seq, pkt, enq_ret, run_snapshot,
                   run_results, poolvars, workervars>>

\* line 678: metrics_start() when there is no warmup
M_run_start ==
    /\ mainpc = "run_start"
    /\ g_metrics' = metrics_start(g_metrics)
    /\ mainpc' = "loop_top"
    /\ UNCHANGED <<cfgvars, judgevars, heap, envvars, call, run_idx, warmup_complete, run_is_running, is_running,
                   packets_captured, seq, pkt, enq_ret, run_snapshot, run_results,
                   poolvars, workervars>>

\* a loop condition that does not look at the stop flag
CaptureLoopCond_NoStop == run_is_running = 1

\* line 681: while (is_running && run_is_running)
CaptureLoopCond == is_running = 1 /\ run_is_running = 1

\* lines 681-685: the loop condition fails, or warmup is still running and
\* the clock has not reached warmup_end_ns; lines 697-703: in measurement the
\* clock has or has not reached measure_end_ns (the environment's choice)
M_loop_top ==
    /\ mainpc = "loop_top"
    /\ IF ~CaptureLoopCond
         THEN /\ mainpc' = "gen_stop"
              /\ UNCHANGED <<run_is_running, clock>>
         ELSE IF ~warmup_complete
         THEN /\ mainpc' = "recv"
              /\ UNCHANGED <<run_is_running, clock>>
         ELSE \/ /\ run_is_running' = 0
                 /\ clock' = clock + actual_measure_sec * SEC_US
                 /\ mainpc' = "gen_stop"
              \/ /\ mainpc' = "recv"
                 /\ UNCHANGED <<run_is_running, clock>>
    /\ UNCHANGED <<cfgvars, judgevars, heap, traffic_pid, call, run_idx, warmup_complete, is_running,
                   packets_captured, seq, pkt, enq_ret, run_snapshot,
                   run_results, poolvars, workervars, g_metrics>>

\* lines 685-686: the clock has reached warmup_end_ns, warmup_complete = 1
M_loop_edge ==
    /\ mainpc = "loop_top"
    /\ CaptureLoopCond
    /\ ~warmup_complete
    /\ warmup_complete' = TRUE
    /\ clock' = clock + warmup_sec * SEC_US
    /\ mainpc' = "edge_memset"
    /\ UNCHANGED <<cfgvars, judgevars, heap, traffic_pid, call, run_idx, run_is_running, is_running,
                   packets_captured, seq, pkt, enq_ret, run_snapshot,
                   run_results, poolvars, workervars, g_metrics>>

\* line 690, metrics_init at the warmup->measure edge: the memset
M_edge_memset ==
    /\ mainpc = "edge_memset"
    /\ g_metrics' = metrics_init(g_metrics)
    /\ mainpc' = "edge_stores"
    /\ UNCHANGED <<cfgvars, judgevars, heap, envvars, call, run_idx, warmup_complete, run_is_running, is_running,
                   packets_captured, seq, pkt, enq_ret, run_snapshot, run_results,
                   poolvars, workervars>>

\* line 690, metrics_init at the edge: the stores
M_edge_stores ==
    /\ mainpc = "edge_stores"
    /\ g_metrics' = metrics_init(g_metrics)
    /\ mainpc' = "edge_start"
    /\ UNCHANGED <<cfgvars, judgevars, heap, envvars, call, run_idx, warmup_complete, run_is_running, is_running,
                   packets_captured, seq, pkt, enq_ret, run_snapshot, run_results,
                   poolvars, workervars>>

\* line 691: metrics_start(); lines 697-703: the measurement end check of
\* the same iteration
M_edge_start ==
    /\ mainpc = "edge_start"
    /\ g_metrics' = metrics_start(g_metrics)
    /\ \/ /\ run_is_running' = 0
          /\ clock' = clock + actual_measure_sec * SEC_US
          /\ mainpc' = "gen_stop"
       \/ /\ mainpc' = "recv"
          /\ UNCHANGED <<run_is_running, clock>>
    /\ UNCHANGED <<cfgvars, judgevars, heap, traffic_pid, call, run_idx, warmup_complete, is_running,
                   packets_captured, seq, pkt, enq_ret, run_snapshot, run_results,
                   poolvars, workervars>>

\* lines 732-736: socket_receive_packet returned 0, no packet
M_recv_none ==
    /\ mainpc = "recv"
    /\ ~socket_down
    /\ mainpc' = "loop_top"
    /\ UNCHANGED <<cfgvars, judgevars, heap, envvars, call, run_idx, warmup_complete, run_is_running, is_running,
                   packets_captured, seq, pkt, enq_ret, run_snapshot, run_results,
                   poolvars, workervars, g_metrics>>

\* lines 723-730: socket_receive_packet returned a negative value: the error
\* is logged while is_running is set, then continue
M_recv_error ==
    /\ mainpc = "recv"
    /\ socket_down
    /\ mainpc' = "loop_top"
    /\ UNCHANGED <<cfgvars, judgevars, heap, envvars, call, run_idx, warmup_complete,
                   run_is_running, is_running, packets_captured, seq, pkt, enq_ret,
                   run_snapshot, run_results, poolvars, workervars, g_metrics>>

\* lines 723-746: a frame was received: packets_captured++, metrics_inc_captured
\* when warmup is complete, packet_create (which fills raw_data, packet_length
\* and timestamp, sets the header pointers to NULL and stores no capture_ts_ns;
\* main stores none either before thread_pool_enqueue)
M_recv_frame ==
    /\ mainpc = "recv"
    /\ ~socket_down
    /\ seq < MaxFrames
    /\ \E k \in source :
          /\ pkt' = [id |-> seq + 1, len |-> k.len, ethertype |-> k.ethertype,
                     protocol |-> k.protocol, warm |-> ~warmup_complete,
                     latency_ns |-> k.latency_ns, stamped |-> FALSE]
          /\ g_metrics' = IF warmup_complete
                            THEN metrics_inc_captured(g_metrics, k.len)
                            ELSE g_metrics
    /\ heap' = packet_create(heap, seq + 1)
    /\ seq' = seq + 1
    /\ packets_captured' = packets_captured + 1
    /\ mainpc' = "enq_lock"
    /\ UNCHANGED <<cfgvars, judgevars, envvars, call, run_idx, warmup_complete, run_is_running, is_running,
                   enq_ret, run_snapshot, run_results, poolvars, workervars>>

\* thread_pool_enqueue line 164: pthread_mutex_lock
M_enq_lock ==
    /\ mainpc = "enq_lock" /\ queue_lock = FREE
    /\ queue_lock' = MAIN
    /\ mainpc' = "enq_body"
    /\ UNCHANGED <<cfgvars, judgevars, heap, envvars, call, run_idx, warmup_complete, run_is_running, is_running,
                   packets_captured, seq, pkt, enq_ret, run_snapshot, run_results,
                   queue, queue_size, pool_is_running, pool_packets_processed,
                   pool_freed, cleanup_freed, freed_touched, workervars, g_metrics>>

\* a capacity test that admits one item too many
QueueFull_OffByOne == queue_size > MaxQueue

\* line 166: the queue is full
QueueFull == queue_size >= MaxQueue

\* thread_pool_enqueue lines 166-168: full queue, unlock
M_enq_full ==
    /\ mainpc = "enq_body" /\ queue_lock = MAIN
    /\ QueueFull
    /\ queue_lock' = FREE
    /\ mainpc' = "enq_drop"
    /\ UNCHANGED <<cfgvars, judgevars, heap, envvars, call, run_idx, warmup_complete, run_is_running, is_running,
                   packets_captured, seq, pkt, enq_ret, run_snapshot, run_results,
                   queue, queue_size, pool_is_running, pool_packets_processed,
                   pool_freed, cleanup_freed, freed_touched, workervars, g_metrics>>

\* a link in front of the head
Link_AtHead(q, f) == <<f>> \o q

\* lines 174-179: link the item behind the tail
Link(q, f) == Append(q, f)

\* main lines 748-764 after thread_pool_enqueue returned: packet_free on
\* failure, then the packet count limit
LimitReached == max_packets > 0 /\ packets_captured >= max_packets

AfterEnqueue(rir) == IF LimitReached THEN 0 ELSE rir

\* traffic_generator_stop: a running generator gets SIGINT and the caller
\* sleeps 200 ms before it reaps the child; without a generator it does nothing
StopWait == IF traffic_pid > 0 THEN GEN_STOP_WAIT_US ELSE 0

\* lines 760-764: at the packet limit the generator is stopped
StopAtLimit ==
    IF LimitReached
      THEN traffic_pid' = -1 /\ clock' = clock + StopWait
      ELSE UNCHANGED <<traffic_pid, clock>>

\* thread_pool_enqueue lines 174-188: link at the tail, queue_size++,
\* metrics_update_queue_depth_max, pthread_cond_signal, unlock, return 0
M_enq_link ==
    /\ mainpc = "enq_body" /\ queue_lock = MAIN
    /\ ~QueueFull
    /\ queue' = Link(queue, pkt)
    /\ queue_size' = queue_size + 1
    /\ g_metrics' = metrics_update_queue_depth_max(g_metrics, queue_size + 1)
    /\ IF Waiting = {}
         THEN wpc' = wpc
         ELSE \E w \in Waiting : wpc' = cond_signal(wpc, w)
    /\ queue_lock' = FREE
    /\ enq_ret' = 0
    /\ pkt' = NoFrame
    /\ run_is_running' = AfterEnqueue(run_is_running)
    /\ StopAtLimit
    /\ mainpc' = "loop_top"
    /\ UNCHANGED <<cfgvars, judgevars, heap, call, run_idx, warmup_complete, is_running,
                   packets_captured, seq, run_snapshot, run_results,
                   pool_is_running, pool_packets_processed, pool_freed,
                   cleanup_freed, freed_touched, item, wtmp>>

\* thread_pool_enqueue lines 169-171: free(item), metrics_inc_queue_drops,
\* return -1; the caller frees the packet
M_enq_drop ==
    /\ mainpc = "enq_drop"
    /\ g_metrics' = metrics_inc_queue_drops(g_metrics)
    /\ enq_ret' = -1
    /\ heap' = packet_free(heap, pkt.id)
    /\ pkt' = NoFrame
    /\ run_is_running' = AfterEnqueue(run_is_running)
    /\ StopAtLimit
    /\ mainpc' = "loop_top"
    /\ UNCHANGED <<cfgvars, judgevars, call, run_idx, warmup_complete, is_running,
                   packets_captured, seq, run_snapshot, run_results,
                   poolvars, workervars>>

\* lines 701 and 768: traffic_generator_stop() when the measurement period
\* is over, and once more behind the loop
M_gen_stop ==
    /\ mainpc = "gen_stop"
    /\ traffic_pid' = -1
    /\ clock' = clock + StopWait
    /\ mainpc' = "stop_capture"
    /\ UNCHANGED <<cfgvars, judgevars, heap, call, run_idx, warmup_complete, run_is_running,
                   is_running, packets_captured, seq, pkt, enq_ret, run_snapshot,
                   run_results, poolvars, workervars, g_metrics>>

\* line 771: metrics_stop_capture()
M_stop_capture ==
    /\ mainpc = "stop_capture"
    /\ g_metrics' = metrics_stop_capture(g_metrics)
    /\ mainpc' = "drain"
    /\ UNCHANGED <<cfgvars, judgevars, heap, envvars, call, run_idx, warmup_complete, run_is_running, is_running,
                   packets_captured, seq, pkt, enq_ret, run_snapshot, run_results,
                   poolvars, workervars>>

\* line 775: usleep(500000), the time given to the workers to drain the queue
M_drain ==
    /\ mainpc = "drain"
    /\ clock' = clock + DRAIN_US
    /\ mainpc' = "snapshot"
    /\ UNCHANGED <<cfgvars, judgevars, heap, traffic_pid, call, run_idx, warmup_complete,
                   run_is_running, is_running, packets_captured, seq, pkt, enq_ret,
                   run_snapshot, run_results, poolvars, workervars, g_metrics>>

\* ---- per-run results and the regression gate (main, regression.c) --------
\* A double is written as the fraction num/den with den >= 0; den = 0 is
\* what a division by zero gives: an infinity (num # 0) or a NaN (num = 0).
Double(n) == [num |-> n, den |-> 1]

\* a - b, both finite
fsub(a, b) == [num |-> a.num * b.den - b.num * a.den, den |-> a.den * b.den]

\* a / b, both finite
fdiv(a, b) ==
    IF b.num = 0
      THEN [num |-> IF a.num > 0 THEN 1 ELSE IF a.num < 0 THEN -1 ELSE 0, den |-> 0]
    ELSE IF b.num > 0 THEN [num |-> a.num * b.den, den |-> a.den * b.num]
    ELSE [num |-> -(a.num * b.den), den |-> -(a.den * b.num)]

\* a < b with b finite: false when a is a NaN or +infinity
flt(a, b) == a.num * b.den < b.num * a.den

fneg(a) == [num |-> -a.num, den |-> a.den]

\* a slot of run_results as calloc leaves it (line 622)
ZeroRun == [pps |-> Double(0), mbps |-> Double(0), p95_ns |-> 0, pkts_processed |-> 0]

\* metrics_snapshot lines 481-489: capture_elapsed_sec, in units of the clock
capture_elapsed(snapshot) ==
    IF snapshot.start_time_ns > 0 /\ snapshot.capture_end_time_ns > 0
      THEN snapshot.capture_end_time_ns - snapshot.start_time_ns
    ELSE IF snapshot.start_time_ns > 0
      THEN metrics_now_ns - snapshot.start_time_ns
    ELSE 0

\* lines 782-790: the values stored in run_results[run_idx]
run_metrics(snapshot) ==
    LET elapsed == IF capture_elapsed(snapshot) < MIN_ELAPSED_US
                     THEN MIN_ELAPSED_US ELSE capture_elapsed(snapshot)
    IN  [ pps |-> [num |-> snapshot.pkts_processed * SEC_US, den |-> elapsed],
          mbps |-> [num |-> snapshot.bytes_processed * 8, den |-> elapsed],
          p95_ns |-> metrics_percentile_ns(snapshot, 95, 1),
          pkts_processed |-> snapshot.pkts_processed ]

\* run_results[i - 1]: the slots of runs that did not execute are as calloc
\* left them
RunSlot(i) == IF i <= Len(run_results) THEN run_results[i] ELSE ZeroRun

\* lines 835-838
RECURSIVE SumProcessed(_)
SumProcessed(n) == IF n = 0 THEN 0 ELSE RunSlot(n).pkts_processed + SumProcessed(n - 1)

total_pkts_processed == SumProcessed(num_runs)

\* a sample test that asks for more than min_packets
sample_valid_Strict == total_pkts_processed > min_packets

\* line 840
sample_valid == total_pkts_processed >= min_packets

\* regression_baseline_t after memset(0)
ZeroBaseline ==
    [ valid |-> FALSE, elapsed_sec |-> Double(0), pkts_processed |-> 0,
      pkts_processed_per_sec |-> Double(0), bytes_processed |-> 0,
      mbps_processed |-> Double(0), latency_p95_ns |-> 0,
      queue_drops |-> 0, capture_drops |-> 0, drop_rate |-> Double(0),
      metadata |-> ZeroMeta ]

\* json_extract_*: the value of a key when the text holds the key, else the
\* value the caller's variable had
json_extract(json, key, unset) == IF key \in DOMAIN json THEN json[key] ELSE unset

\* regression_load_baseline lines 449-483: the metadata block
load_metadata(json) ==
    IF "metadata" \in DOMAIN json
      THEN [ f \in DOMAIN ZeroMeta |->
               IF f = "valid" THEN TRUE
               ELSE json_extract(json.metadata, f, ZeroMeta[f]) ]
      ELSE ZeroMeta

\* regression_load_baseline: file is what read_file_contents finds at the
\* path, its text written as the keys it holds and their values; a value
\* that is read with strtod is a decimal, written as a fraction
regression_load_baseline(filepath, file) ==
    IF filepath = "" \/ ~file.exists
      THEN [ret |-> -1, baseline |-> ZeroBaseline]
    ELSE
      LET json == file.json
          elapsed_sec == json_extract(json, "elapsed_sec", Double(0))
          pkts_processed == json_extract(json, "processed", 0)
          pps == IF "rate_pps" \in DOMAIN json THEN json.rate_pps
                 ELSE IF flt(Double(0), elapsed_sec)
                   THEN fdiv(Double(pkts_processed), elapsed_sec)
                 ELSE Double(0)
          bytes_processed ==
              IF "bytes_processed" \in DOMAIN json THEN json.bytes_processed
              ELSE IF "bytes" \in DOMAIN json
                THEN json_extract(json.bytes, "processed", 0)
              ELSE 0
          mbps == IF "rate_mbps" \in DOMAIN json THEN json.rate_mbps
                  ELSE IF flt(Double(0), elapsed_sec) /\ bytes_processed > 0
                    THEN fdiv(fdiv(Double(bytes_processed), elapsed_sec),
                              Double(1024 * 1024))
                  ELSE Double(0)
          queue_drops == json_extract(json, "queue_drops", 0)
          capture_drops == json_extract(json, "capture_drops", 0)
          total_captured == json_extract(json, "captured", 0)
          valid == flt(Double(0), pps) \/ pkts_processed > 0
      IN  [ ret |-> IF valid THEN 0 ELSE -1,
            baseline |->
              [ valid |-> valid, elapsed_sec |-> elapsed_sec,
                pkts_processed |-> pkts_processed,
                pkts_processed_per_sec |-> pps,
                bytes_processed |-> bytes_processed,
                mbps_processed |-> mbps,
                latency_p95_ns |-> json_extract(json, "p95", 0),
                queue_drops |-> queue_drops, capture_drops |-> capture_drops,
                drop_rate |-> IF total_captured > 0
                                THEN [num |-> queue_drops + capture_drops,
                                      den |-> total_captured]
                                ELSE Double(0),
                metadata |-> load_metadata(json) ] ]

\* the must-match fields held as strings and as ints
MustMatchStrings_WithInterface == {"interface", "filter", "traffic_mode", "traffic_target"}

MustMatchStrings == {"filter", "traffic_mode", "traffic_target"}

MustMatchInts == {"threads", "warmup_sec", "duration_sec", "traffic_rate"}

\* strlen(baseline) > 0 && strcmp(baseline, current) != 0
StringMismatch(b, c) == b # "" /\ b # c

\* baseline > 0 && baseline != current
IntMismatch(b, c) == b > 0 /\ b # c

\* has_hard_mismatch after the seven tests
has_hard_mismatch(bm, cm) ==
    \/ \E f \in MustMatchStrings : StringMismatch(bm[f], cm[f])
    \/ \E f \in MustMatchInts : IntMismatch(bm[f], cm[f])

\* regression_validate_metadata for non-NULL arguments: the return value and
\* the caller's error_msg buffer, "" when nothing was written to it
regression_validate_metadata(baseline, current_meta) ==
    IF ~baseline.metadata.valid THEN [ret |-> TRUE, error_msg |-> ""]
    ELSE IF has_hard_mismatch(baseline.metadata, current_meta)
      THEN [ret |-> FALSE,
            error_msg |-> "Metadata mismatch: MUST-MATCH field(s) differ"]
    ELSE [ret |-> TRUE, error_msg |-> ""]

\* lines 892-896: (run - baseline) / baseline < -regression_threshold
run_regressed(run_metric, baseline_metric) ==
    flt(fdiv(fsub(run_metric, baseline_metric), baseline_metric),
        fneg(regression_threshold))

\* lines 891-908
pps_regressed_count(baseline) ==
    Cardinality({i \in 1..num_runs :
                   run_regressed(RunSlot(i).pps, baseline.pkts_processed_per_sec)})

mbps_regressed_count(baseline) ==
    Cardinality({i \in 1..num_runs :
                   run_regressed(RunSlot(i).mbps, baseline.mbps_processed)})

\* a persistence threshold of half the runs, rounded down
min_regressed_runs_Half ==
    IF num_runs \div 2 < 1 THEN 1 ELSE num_runs \div 2

\* lines 911-912
min_regressed_runs ==
    IF (num_runs * 3 + 4) \div 5 < 1 THEN 1 ELSE (num_runs * 3 + 4) \div 5

\* lines 914-916
pps_persistent(baseline) == pps_regressed_count(baseline) >= min_regressed_runs

mbps_persistent(baseline) == mbps_regressed_count(baseline) >= min_regressed_runs

any_persistent(baseline) == pps_persistent(baseline) \/ mbps_persistent(baseline)

\* lines 880-959: the comparison with a compatible baseline
Compare(baseline) ==
    [ exit_code |-> IF any_persistent(baseline) /\ fail_on_regression = 1
                      THEN EXIT_REGRESSION ELSE 0,
      report |-> {"REGRESSION COMPARISON RESULTS",
                  IF pps_persistent(baseline) THEN "PPS REGRESSION" ELSE "PPS OK",
                  IF mbps_persistent(baseline) THEN "Mbps REGRESSION" ELSE "Mbps OK",
                  IF any_persistent(baseline)
                    THEN "PERFORMANCE REGRESSION DETECTED"
                    ELSE "ALL METRICS WITHIN THRESHOLD"} ]

\* an exit code for an incompatible baseline that does not look at
\* --fail-on-regression
MismatchExit_Always == EXIT_CONFIG_MISMATCH

\* lines 876-878
MismatchExit == IF fail_on_regression = 1 THEN EXIT_CONFIG_MISMATCH ELSE 0

\* lines 840-967: exit_code and what is reported
Judge ==
    IF ~sample_valid
      THEN [exit_code |-> EXIT_INSUFFICIENT_SAMPLE, report |-> {"INSUFFICIENT SAMPLE"}]
    ELSE IF baseline_path = "" THEN [exit_code |-> 0, report |-> {}]
    ELSE
      LET loaded == regression_load_baseline(baseline_path, baseline_file)
          compat == regression_validate_metadata(loaded.baseline, g_metadata)
      IN  IF loaded.ret # 0
            THEN [exit_code |-> 0, report |-> {"Failed to load baseline file"}]
          ELSE IF ~compat.ret
            THEN [exit_code |-> MismatchExit,
                  report |-> {"BASELINE METADATA MISMATCH", "Baseline incompatible"}]
          ELSE Compare(loaded.baseline)

\* qsort with compare_double or compare_uint64: ascending order
qsort(arr) == SortSeq(arr, LAMBDA a, b : a < b)

\* median_double; a double result is written as the fraction num/den
median_double(arr, n) ==
    IF n <= 0 THEN [num |-> 0, den |-> 1]
    ELSE IF n % 2 = 1 THEN [num |-> qsort(arr)[n \div 2 + 1], den |-> 1]
    ELSE [num |-> qsort(arr)[n \div 2] + qsort(arr)[n \div 2 + 1], den |-> 2]

\* median_uint64: the sum of the two central values is divided in uint64_t
median_uint64(arr, n) ==
    IF n <= 0 THEN [num |-> 0, den |-> 1]
    ELSE IF n % 2 = 1 THEN [num |-> qsort(arr)[n \div 2 + 1], den |-> 1]
    ELSE [num |-> (qsort(arr)[n \div 2] + qsort(arr)[n \div 2 + 1]) \div 2,
          den |-> 1]

\* the greatest common divisor of two natural numbers, by Euclid's
\* algorithm; the quantifier gives each step the values of its operands
RECURSIVE GCD(_, _)
GCD(a, b) ==
    CHOOSE g \in {IF y = 0 THEN x ELSE GCD(y, x % y) : <<x, y>> \in {<<a, b>>}} : TRUE

\* a fraction in lowest terms
Reduce(x) ==
    CHOOSE r \in {IF g = 0 THEN x ELSE [num |-> x.num \div g, den |-> x.den \div g] :
                    g \in {GCD(x.num, x.den)}} : TRUE

\* compare_double on two finite doubles: a < b
fless(a, b) ==
    \E x \in {Reduce(a)}, y \in {Reduce(b)} :
       \E g \in {GCD(x.den, y.den)} :
          x.num * (y.den \div g) < y.num * (x.den \div g)

\* (a + b) / 2.0 for two finite doubles
fmean(a, b) ==
    CHOOSE m \in UNION {{Reduce([num |-> x.num * (y.den \div g) + y.num * (x.den \div g),
                                 den |-> 2 * (x.den \div g) * y.den]) :
                            g \in {GCD(x.den, y.den)}} :
                          <<x, y>> \in {<<Reduce(a), Reduce(b)>>}} : TRUE

\* median_double on an array of doubles that are written as fractions
median_double_of(arr, n) ==
    CHOOSE m \in {IF n <= 0 THEN [num |-> 0, den |-> 1]
                  ELSE IF n % 2 = 1 THEN sorted[n \div 2 + 1]
                  ELSE fmean(sorted[n \div 2], sorted[n \div 2 + 1]) :
                    sorted \in {SortSeq(arr, fless)}} : TRUE

\* lines 814-827: the medians over the num_runs slots of run_results
Aggregate ==
    [ median_pps |-> median_double_of([i \in 1..num_runs |-> RunSlot(i).pps], num_runs),
      median_mbps |-> median_double_of([i \in 1..num_runs |-> RunSlot(i).mbps], num_runs),
      median_p95 |-> median_uint64([i \in 1..num_runs |-> RunSlot(i).p95_ns], num_runs).num ]

\* lines 778-790: metrics_snapshot and the store into run_results[run_idx].
\* run_results is NULL unless num_runs > 1 (lines 620-630): with one run the
\* store goes through a null pointer, which either ends the process or, in a
\* build that took the allocation for granted, stores the result.
M_snapshot ==
    /\ mainpc = "snapshot"
    /\ run_snapshot' = g_metrics
    /\ \/ /\ mainpc' = "run_check"
          /\ run_idx' = run_idx + 1
          /\ run_results' = Append(run_results, run_metrics(g_metrics))
       \/ /\ num_runs = 1
          /\ mainpc' = "crashed"
          /\ UNCHANGED <<run_results, run_idx>>
    /\ UNCHANGED <<cfgvars, judgevars, heap, envvars, call, warmup_complete, run_is_running, is_running,
                   packets_captured, seq, pkt, enq_ret, poolvars, workervars,
                   g_metrics>>

\* lines 814-984: aggregation, regression judgement and reports.  With one
\* configured run run_results is NULL and lines 820-822 read through it.
M_aggregate ==
    /\ mainpc = "aggregate"
    /\ \/ /\ mainpc' = "destroy_lock"
          /\ aggregate' = Aggregate
          /\ exit_code' = Judge.exit_code
          /\ report' = Judge.report
       \/ /\ num_runs = 1
          /\ mainpc' = "crashed"
          /\ UNCHANGED judgevars
    /\ UNCHANGED <<cfgvars, heap, envvars, call, run_idx, warmup_complete, run_is_running, is_running,
                   packets_captured, seq, pkt, enq_ret, run_snapshot, run_results,
                   poolvars, workervars, g_metrics>>

\* thread_pool_destroy line 122: pthread_mutex_lock
M_destroy_lock ==
    /\ mainpc = "destroy_lock" /\ queue_lock = FREE
    /\ queue_lock' = MAIN
    /\ mainpc' = "destroy_flag"
    /\ UNCHANGED <<cfgvars, judgevars, heap, envvars, call, run_idx, warmup_complete, run_is_running, is_running,
                   packets_captured, seq, pkt, enq_ret, run_snapshot, run_results,
                   queue, queue_size, pool_is_running, pool_packets_processed,
                   pool_freed, cleanup_freed, freed_touched, workervars, g_metrics>>

\* thread_pool_destroy lines 123-125: is_running = 0, broadcast, unlock
M_destroy_flag ==
    /\ mainpc = "destroy_flag" /\ queue_lock = MAIN
    /\ pool_is_running' = 0
    /\ wpc' = cond_broadcast(wpc)
    /\ queue_lock' = FREE
    /\ mainpc' = "join"
    /\ UNCHANGED <<cfgvars, judgevars, heap, envvars, call, run_idx, warmup_complete, run_is_running, is_running,
                   packets_captured, seq, pkt, enq_ret, run_snapshot, run_results,
                   queue, queue_size, pool_packets_processed, pool_freed,
                   cleanup_freed, freed_touched, item, wtmp, g_metrics>>

\* thread_pool_destroy lines 127-129: pthread_join of every worker
M_join ==
    /\ mainpc = "join"
    /\ \A w \in Workers : wpc[w] = "exited"
    /\ mainpc' = "cleanup"
    /\ UNCHANGED <<cfgvars, judgevars, heap, envvars, call, run_idx, warmup_complete, run_is_running, is_running,
                   packets_captured, seq, pkt, enq_ret, run_snapshot, run_results,
                   poolvars, workervars, g_metrics>>

\* thread_pool_destroy lines 131-144: the items still queued are freed
\* (packet_free, free), then the mutex, the thread array and the pool
M_cleanup ==
    /\ mainpc = "cleanup"
    /\ cleanup_freed' = Len(queue)
    /\ heap' = FreeQueued(heap, queue)
    /\ queue' = <<>>
    /\ pool_freed' = TRUE
    /\ mainpc' = "done"
    /\ UNCHANGED <<cfgvars, judgevars, envvars, call, run_idx, warmup_complete, run_is_running, is_running,
                   packets_captured, seq, pkt, enq_ret, run_snapshot, run_results,
                   queue_size, pool_is_running, queue_lock, pool_packets_processed,
                   freed_touched, workervars, g_metrics>>

\* thread_pool_destroy called once more with the same pointer: line 120 lets
\* a non-NULL pointer pass and line 122 locks the mutex inside the freed pool
thread_pool_destroy_again ==
    /\ mainpc = "done" /\ ~freed_touched
    /\ thread_pool # 0
    /\ freed_touched' = pool_freed
    /\ UNCHANGED <<cfgvars, judgevars, heap, envvars, call, mainvars, queue, queue_size, pool_is_running,
                   queue_lock, pool_packets_processed, pool_freed, cleanup_freed,
                   workervars, g_metrics>>

\* signal_handler: SIGINT or SIGTERM clears the global is_running
signal_handler ==
    /\ Alive /\ mainpc # "done" /\ is_running = 1
    /\ is_running' = 0
    /\ UNCHANGED <<cfgvars, judgevars, heap, envvars, call, mainpc, run_idx, warmup_complete, run_is_running,
                   packets_captured, seq, pkt, enq_ret, run_snapshot, run_results,
                   poolvars, workervars, g_metrics>>

\* the main thread when there is no warmup phase (warmup_sec = 0)
MainNoWarmup ==
    \/ M_run_check \/ M_run_memset \/ M_run_stores \/ M_run_start
    \/ M_loop_top
    \/ M_recv_none \/ M_recv_frame
    \/ M_enq_lock \/ M_enq_full \/ M_enq_link \/ M_enq_drop
    \/ M_gen_stop \/ M_stop_capture \/ M_drain \/ M_snapshot \/ M_aggregate
    \/ M_destroy_lock \/ M_destroy_flag \/ M_join \/ M_cleanup

\* the steps of the warmup->measure edge
MainEdge ==
    \/ M_loop_edge \/ M_edge_memset \/ M_edge_stores \/ M_edge_start

Main == MainNoWarmup \/ MainEdge

\* ---- library functions on their own ---------------------------------------
\* Latencies given to metrics_observe_latency: the bucket boundaries of the
\* first microseconds, and values of the order of milliseconds and seconds.
LatencySamples ==
    {0, 1, 500, 999, 1000, 1001, 1999, 2000, 2001, 3999, 4000, 7999, 8000,
     1000000, 1024000, 1000000000, 2000000000}

ObserveCalls ==
    {[fn |-> "metrics_observe_latency", latency_ns |-> ns, done |-> FALSE] :
       ns \in LatencySamples}

\* metrics_observe_latency(latency_ns) on freshly initialised metrics
Call_observe_latency ==
    /\ call.fn = "metrics_observe_latency" /\ ~call.done
    /\ g_metrics' = metrics_observe_latency(g_metrics, call.latency_ns)
    /\ call' = [call EXCEPT !.done = TRUE]
    /\ UNCHANGED <<cfgvars, judgevars, heap, envvars, mainvars, poolvars, workervars>>

\* Threads calling metrics_observe_latency at the same time, one step per
\* atomic operation.  call.args lists the arguments of the calls made so far;
\* item[w].latency_ns is the argument of thread w and wtmp[w] its local
\* current_max.
ObserveArgs == {0, 999, 1000, 2000}

ObserveStart == [fn |-> "observe_threads", args |-> <<>>]

\* a thread calls metrics_observe_latency(latency_ns)
O_call(w) ==
    /\ call.fn = "observe_threads" /\ wpc[w] = "top"
    /\ Len(call.args) < MaxCalls
    /\ \E ns \in ObserveArgs :
          /\ item' = [item EXCEPT ![w] = [NoFrame EXCEPT !.latency_ns = ns]]
          /\ call' = [call EXCEPT !.args = Append(@, ns)]
    /\ wpc' = [wpc EXCEPT ![w] = "obs_count"]
    /\ UNCHANGED <<cfgvars, judgevars, heap, envvars, mainvars, poolvars, wtmp, g_metrics>>

\* line 373
O_count(w) ==
    /\ wpc[w] = "obs_count"
    /\ g_metrics' = observe_latency_count(g_metrics)
    /\ wpc' = [wpc EXCEPT ![w] = "obs_sum"]
    /\ UNCHANGED <<cfgvars, judgevars, heap, envvars, mainvars, poolvars, item, wtmp, call>>

\* line 376
O_sum(w) ==
    /\ wpc[w] = "obs_sum"
    /\ g_metrics' = observe_latency_sum(g_metrics, item[w].latency_ns)
    /\ wpc' = [wpc EXCEPT ![w] = "obs_load"]
    /\ UNCHANGED <<cfgvars, judgevars, heap, envvars, mainvars, poolvars, item, wtmp, call>>

\* line 379: current_max = atomic_load(&g_metrics.latency_max_ns)
O_load(w) ==
    /\ wpc[w] = "obs_load"
    /\ wtmp' = [wtmp EXCEPT ![w] = g_metrics.latency_max_ns]
    /\ wpc' = [wpc EXCEPT ![w] = "obs_cas"]
    /\ UNCHANGED <<cfgvars, judgevars, heap, envvars, mainvars, poolvars, item, g_metrics, call>>

\* lines 380-385: the loop test, and one atomic_compare_exchange_weak when
\* the argument is above current_max.  The exchange succeeds and leaves the
\* loop, or fails, writes the value it found to current_max, and the loop
\* runs again; a failure of the weak form that found the expected value
\* changes nothing.
O_cas(w) ==
    /\ wpc[w] = "obs_cas"
    /\ IF item[w].latency_ns > wtmp[w]
         THEN LET r == atomic_compare_exchange_weak(g_metrics, wtmp[w], item[w].latency_ns)
              IN  /\ g_metrics' = r.m
                  /\ wtmp' = [wtmp EXCEPT ![w] = r.expected]
                  /\ wpc' = [wpc EXCEPT ![w] = IF r.ok THEN "obs_bucket" ELSE @]
         ELSE /\ wpc' = [wpc EXCEPT ![w] = "obs_bucket"]
              /\ UNCHANGED <<wtmp, g_metrics>>
    /\ UNCHANGED <<cfgvars, judgevars, heap, envvars, mainvars, poolvars, item, call>>

\* lines 388-389, and the return
O_bucket(w) ==
    /\ wpc[w] = "obs_bucket"
    /\ g_metrics' = observe_latency_bucket(g_metrics, item[w].latency_ns)
    /\ wpc' = [wpc EXCEPT ![w] = "top"]
    /\ item' = [item EXCEPT ![w] = NoFrame]
    /\ wtmp' = [wtmp EXCEPT ![w] = 0]
    /\ UNCHANGED <<cfgvars, judgevars, heap, envvars, mainvars, poolvars, call>>

\* Frames given to packet_parse: IPv4 frames of several captured lengths,
\* with every IHL nibble, the protocols TCP, UDP and ICMP, and a TCP data
\* offset of 5 or 15 words
ParseLengths == {10, 14, 33, 34, 42, 54, 74, 94}

ParseCalls ==
    {[fn |-> "packet_parse", len |-> n, ethertype |-> ETHER_IPV4, ihl |-> i,
      protocol |-> pr, data_offset |-> d, done |-> FALSE, crashed |-> FALSE,
      ret |-> packet_parse([len |-> 0, ethertype |-> 0, ihl |-> 0, protocol |-> 0], 0)] :
       n \in ParseLengths, i \in 0..15, pr \in {PROTO_TCP, PROTO_UDP, PROTO_ICMP},
       d \in {5, 15}}

\* packet_parse(packet).  A memcpy that reads past the captured bytes is
\* undefined: the process crashes there, or the copy yields whatever lies
\* behind the buffer, so that the TCP data offset is any nibble.
Call_packet_parse ==
    /\ call.fn = "packet_parse" /\ ~call.done
    /\ LET exact == packet_parse(call, call.data_offset)
           over == exact.tcp /\ ~InBounds(call.len, exact.l4_offset, TCP_HDR_LEN)
       IN  IF over
             THEN \/ call' = [call EXCEPT !.done = TRUE, !.crashed = TRUE, !.ret = exact]
                  \/ \E garbage \in {0, 5, 15} :
                        call' = [call EXCEPT !.done = TRUE,
                                             !.ret = packet_parse(call, garbage)]
             ELSE call' = [call EXCEPT !.done = TRUE, !.ret = exact]
    /\ UNCHANGED <<cfgvars, judgevars, heap, envvars, mainvars, poolvars, workervars, g_metrics>>

\* the percentiles the reports ask for (0.50, 0.95, 0.99) and 1.0
Percentiles == {<<50, 100>>, <<95, 100>>, <<99, 100>>, <<1, 1>>}

\* snapshots of metrics whose observations fell into buckets 0..MaxBucket:
\* latency_count is the number of observations and latency_max_ns a latency
\* of the highest bucket that is filled
SnapshotOf(h) ==
    LET filled == {i \in 0..MaxBucket : h[i] > 0}
        top == IF filled = {} THEN 0
               ELSE CHOOSE i \in filled : \A j \in filled : j <= i
    IN  [ latency_histogram |-> [i \in filled |-> h[i]],
          latency_count |-> HistogramSum([latency_histogram |-> h], MaxBucket),
          latency_max_ns |-> IF filled = {} THEN 0
                             ELSE IF top = 0 THEN 999 ELSE Pow2(top) * 1000 ]

PercentileCalls ==
    {[fn |-> "metrics_percentile_ns", snapshot |-> SnapshotOf(h),
      pnum |-> p[1], pden |-> p[2], done |-> FALSE, ret |-> 0] :
       h \in [0..MaxBucket -> 0..MaxObs], p \in Percentiles}

Call_percentile ==
    /\ call.fn = "metrics_percentile_ns" /\ ~call.done
    /\ call' = [call EXCEPT !.done = TRUE,
                            !.ret = metrics_percentile_ns(call.snapshot,
                                                          call.pnum, call.pden)]
    /\ UNCHANGED <<cfgvars, judgevars, heap, envvars, mainvars, poolvars, workervars, g_metrics>>

\* socket_set_filter, Linux: the ICMP filter handed to SO_ATTACH_FILTER
icmp_filter_linux ==
    << [code |-> "ldh", k |-> 12, jt |-> 0, jf |-> 0],
       [code |-> "jeq", k |-> ETHER_IPV4, jt |-> 0, jf |-> 4],
       [code |-> "ldb", k |-> 23, jt |-> 0, jf |-> 0],
       [code |-> "jeq", k |-> PROTO_ICMP, jt |-> 4, jf |-> 5],
       [code |-> "ldh", k |-> 12, jt |-> 0, jf |-> 0],
       [code |-> "jeq", k |-> ETHER_IPV6, jt |-> 0, jf |-> 3],
       [code |-> "ldb", k |-> 20, jt |-> 0, jf |-> 0],
       [code |-> "jeq", k |-> PROTO_ICMPV6, jt |-> 0, jf |-> 1],
       [code |-> "ret", k |-> 65535, jt |-> 0, jf |-> 0],
       [code |-> "ret", k |-> 0, jt |-> 0, jf |-> 0] >>

\* socket_set_filter, macOS: the ICMP filter handed to BIOCSETFNR; the accept
\* length (u_int)-1 is kept as written
icmp_filter_macos ==
    << [code |-> "ldh", k |-> 12, jt |-> 0, jf |-> 0],
       [code |-> "jeq", k |-> ETHER_IPV4, jt |-> 0, jf |-> 4],
       [code |-> "ldb", k |-> 23, jt |-> 0, jf |-> 0],
       [code |-> "jeq", k |-> PROTO_ICMP, jt |-> 4, jf |-> 5],
       [code |-> "ldh", k |-> 12, jt |-> 0, jf |-> 0],
       [code |-> "jeq", k |-> ETHER_IPV6, jt |-> 0, jf |-> 3],
       [code |-> "ldb", k |-> 20, jt |-> 0, jf |-> 0],
       [code |-> "jeq", k |-> PROTO_ICMPV6, jt |-> 0, jf |-> 1],
       [code |-> "ret", k |-> -1, jt |-> 0, jf |-> 0],
       [code |-> "ret", k |-> 0, jt |-> 0, jf |-> 0] >>

\* the instruction the filter machine is at (pc counts from 0)
FilterInsn ==
    IF call.os = "linux" THEN icmp_filter_linux[call.pc + 1]
    ELSE icmp_filter_macos[call.pc + 1]

\* BPF_LD | BPF_H | BPF_ABS and BPF_LD | BPF_B | BPF_ABS: the halfword at
\* offset 12 is the EtherType, the bytes at 20 and 23 are frame bytes
FrameLoad(frame, k) ==
    CASE k = 12 -> frame.ethertype
      [] k = 20 -> frame.byte20
      [] k = 23 -> frame.byte23

\* frames offered to the filter: IPv4, IPv6 and ARP EtherTypes with the
\* bytes at offsets 20 and 23 being ICMP, ICMPv6 or neither
FilterFrames ==
    [ethertype : {ETHER_IPV4, ETHER_IPV6, ETHER_ARP},
     byte20 : {0, PROTO_ICMP, PROTO_ICMPV6},
     byte23 : {0, PROTO_ICMP, PROTO_ICMPV6}]

FilterCalls ==
    {[fn |-> "icmp_filter", os |-> o, frame |-> f, pc |-> 0, A |-> 0,
      done |-> FALSE, ret |-> 0] : o \in {"linux", "macos"}, f \in FilterFrames}

\* a load instruction: the accumulator gets the frame bytes at offset k
BPF_ld ==
    /\ call.fn = "icmp_filter" /\ ~call.done
    /\ FilterInsn.code \in {"ldh", "ldb"}
    /\ call' = [call EXCEPT !.A = FrameLoad(call.frame, FilterInsn.k),
                            !.pc = @ + 1]
    /\ UNCHANGED <<cfgvars, judgevars, heap, envvars, mainvars, poolvars, workervars, g_metrics>>

\* BPF_JMP | BPF_JEQ | BPF_K: jt or jf instructions are skipped, counted
\* from the instruction behind the jump
BPF_jeq ==
    /\ call.fn = "icmp_filter" /\ ~call.done
    /\ FilterInsn.code = "jeq"
    /\ call' = [call EXCEPT !.pc = @ + 1 + (IF call.A = FilterInsn.k
                                               THEN FilterInsn.jt
                                               ELSE FilterInsn.jf)]
    /\ UNCHANGED <<cfgvars, judgevars, heap, envvars, mainvars, poolvars, workervars, g_metrics>>

\* BPF_RET | BPF_K: the filter ends with the capture length k
BPF_ret ==
    /\ call.fn = "icmp_filter" /\ ~call.done
    /\ FilterInsn.code = "ret"
    /\ call' = [call EXCEPT !.done = TRUE, !.ret = FilterInsn.k]
    /\ UNCHANGED <<cfgvars, judgevars, heap, envvars, mainvars, poolvars, workervars, g_metrics>>

\* BPF_WORDALIGN: round up to the BPF alignment of four bytes
BPF_WORDALIGN(x) == ((x + 3) \div 4) * 4

\* the bytes a record occupies in the BPF buffer
RecordSpan(bh) == BPF_WORDALIGN(bh.bh_hdrlen + bh.bh_caplen)

\* the byte offset at which the i-th record of a buffer starts
RECURSIVE RecordStart(_, _)
RecordStart(buf, i) ==
    IF i <= 1 THEN 0 ELSE RecordStart(buf, i - 1) + RecordSpan(buf[i - 1])

\* the first record of the buffer that starts at the byte offset
RecordAt(buf, offset) ==
    CHOOSE i \in 1..Len(buf) :
       /\ RecordStart(buf, i) = offset
       /\ \A j \in 1..(i - 1) : RecordStart(buf, j) # offset

\* line 244: the bpf_hdr found at config->bpf_offset
HeaderAt(buf, offset) == buf[RecordAt(buf, offset)]

\* bpf_hdr values: an 18 byte header or a header length of zero (invalid),
\* and a captured length that is zero (invalid), below, or above the caller's
\* buffer sizes
BpfHeaders == [bh_hdrlen : {0, 18}, bh_caplen : {0, 60, 100}]

\* line 247: the header passes the validation
ValidHeader(bh) == bh.bh_caplen # 0 /\ bh.bh_hdrlen # 0

BpfBuffers == UNION {[1..n -> BpfHeaders] : n \in 1..MaxRecords}

\* socket_receive_packet calls: a kernel buffer, the offset of one of its
\* records or of its end, and the size of the caller's buffer
ReceiveCalls ==
    UNION {{[fn |-> "socket_receive_packet", bpf_buffer |-> b,
             bpf_offset |-> RecordStart(b, i),
             bpf_data_len |-> RecordStart(b, Len(b) + 1),
             buffer_size |-> n, bh_caplen |-> 0, done |-> FALSE, ret |-> 0] :
              i \in 1..(Len(b) + 1), n \in {64, 128}} : b \in BpfBuffers}

\* a record is taken without the validation of its header
RecordReady_Unchecked(c) == c.bpf_offset < c.bpf_data_len

\* lines 244-272: the record at bpf_offset has a valid header
RecordReady(c) ==
    /\ c.bpf_offset < c.bpf_data_len
    /\ HeaderAt(c.bpf_buffer, c.bpf_offset).bh_caplen # 0
    /\ HeaderAt(c.bpf_buffer, c.bpf_offset).bh_hdrlen # 0

\* lines 254-272: the offset advances by the aligned record length, a
\* captured length above buffer_size is cut to buffer_size (logger_warn),
\* the bytes are copied and their number returned
EmitRecord(c) ==
    LET bh == HeaderAt(c.bpf_buffer, c.bpf_offset)
    IN  [c EXCEPT !.bpf_offset = @ + RecordSpan(bh),
                  !.bh_caplen = bh.bh_caplen,
                  !.ret = IF bh.bh_caplen > c.buffer_size
                            THEN c.buffer_size ELSE bh.bh_caplen,
                  !.done = TRUE]

\* socket_receive_packet, macOS: a buffered record is emitted
Call_receive_record ==
    /\ call.fn = "socket_receive_packet" /\ ~call.done
    /\ RecordReady(call)
    /\ call' = EmitRecord(call)
    /\ UNCHANGED <<cfgvars, judgevars, heap, envvars, mainvars, poolvars, workervars, g_metrics>>

\* socket_receive_packet, macOS, lines 274-296: the buffer is used up or its
\* header is invalid; the buffer is reset and read() either fails (-1), has
\* nothing (0), or fills the buffer with one record, which the recursive
\* call emits
Call_receive_read ==
    /\ call.fn = "socket_receive_packet" /\ ~call.done
    /\ ~RecordReady(call)
    /\ \/ \E r \in {-1, 0} :
             call' = [call EXCEPT !.bpf_offset = 0, !.bpf_data_len = 0,
                                  !.ret = r, !.done = TRUE]
       \/ \E bh \in {h \in BpfHeaders : ValidHeader(h)} :
             call' = EmitRecord([call EXCEPT !.bpf_buffer = <<bh>>,
                                             !.bpf_offset = 0,
                                             !.bpf_data_len = RecordSpan(bh)])
    /\ UNCHANGED <<cfgvars, judgevars, heap, envvars, mainvars, poolvars, workervars, g_metrics>>

\* A sequence of socket_receive_packet calls on one capture handle, whose
\* bpf_buffer, bpf_offset and bpf_data_len last from call to call.  emitted
\* lists the records of the present buffer that were returned, reads counts
\* the read() calls; pc is "entry" at line 242 of a call and "idle" between
\* calls.
ReceiveSessions ==
    {[fn |-> "receive_session", pc |-> "idle", bpf_buffer |-> <<>>,
      bpf_offset |-> 0, bpf_data_len |-> 0, buffer_size |-> n, bh_caplen |-> 0,
      done |-> FALSE, ret |-> 0, emitted |-> <<>>, reads |-> 0, calls |-> 0] :
       n \in {64, 128}}

\* the capture loop calls socket_receive_packet (main line 721)
S_call ==
    /\ call.fn = "receive_session" /\ call.pc = "idle"
    /\ call.calls < MaxReceives
    /\ call' = [call EXCEPT !.pc = "entry", !.calls = @ + 1]
    /\ UNCHANGED <<cfgvars, judgevars, heap, envvars, mainvars, poolvars, workervars, g_metrics>>

\* lines 242-272: a buffered record is returned
S_record ==
    /\ call.fn = "receive_session" /\ call.pc = "entry"
    /\ RecordReady(call)
    /\ call' = [EmitRecord(call) EXCEPT
                  !.done = FALSE, !.pc = "idle",
                  !.emitted = Append(@, RecordAt(call.bpf_buffer, call.bpf_offset))]
    /\ UNCHANGED <<cfgvars, judgevars, heap, envvars, mainvars, poolvars, workervars, g_metrics>>

\* lines 247-252 and 274-298: the buffer is used up or the header at the
\* offset is invalid; the buffer is reset and read() fails (-1), has nothing
\* (0), or fills the buffer with 1..MaxRecords records, after which the
\* function calls itself (line 298)
S_read ==
    /\ call.fn = "receive_session" /\ call.pc = "entry"
    /\ ~RecordReady(call)
    /\ \/ \E r \in {-1, 0} :
             call' = [call EXCEPT !.bpf_buffer = <<>>, !.bpf_offset = 0,
                                  !.bpf_data_len = 0, !.emitted = <<>>,
                                  !.reads = @ + 1, !.ret = r, !.pc = "idle"]
       \/ /\ call.reads < MaxReads
          /\ \E b \in BpfBuffers :
                call' = [call EXCEPT !.bpf_buffer = b, !.bpf_offset = 0,
                                     !.bpf_data_len = RecordStart(b, Len(b) + 1),
                                     !.emitted = <<>>, !.reads = @ + 1]
    /\ UNCHANGED <<cfgvars, judgevars, heap, envvars, mainvars, poolvars, workervars, g_metrics>>

\* main lines 814-827: the per-run pps, mbps and p95_ns values of 1..MaxRuns
\* runs, pps and mbps through median_double, p95_ns through median_uint64
MedianCalls ==
    UNION {{[fn |-> f, arr |-> a, n |-> n, done |-> FALSE,
             ret |-> [num |-> 0, den |-> 1]] :
              f \in {"median_double", "median_uint64"},
              a \in [1..n -> 1..MaxValue]} : n \in 1..MaxRuns}

Call_median_double ==
    /\ call.fn = "median_double" /\ ~call.done
    /\ call' = [call EXCEPT !.done = TRUE, !.ret = median_double(call.arr, call.n)]
    /\ UNCHANGED <<cfgvars, judgevars, heap, envvars, mainvars, poolvars, workervars, g_metrics>>

Call_median_uint64 ==
    /\ call.fn = "median_uint64" /\ ~call.done
    /\ call' = [call EXCEPT !.done = TRUE, !.ret = median_uint64(call.arr, call.n)]
    /\ UNCHANGED <<cfgvars, judgevars, heap, envvars, mainvars, poolvars, workervars, g_metrics>>

\* The metadata of two invocations: with --icmp, four threads, a warmup and a
\* traffic generator (the reference of tests/test_regression.c), and with none
\* of these and no time limit.
ReferenceMeta ==
    metrics_set_metadata("eth0", "icmp", 4, 131072, 20, 2, "icmp", "8.8.8.8", 50)

PlainMeta ==
    metrics_set_metadata("eth0", "none", 1, 131072, 0, 0, "", "8.8.8.8", 0)

\* Metadata blocks of baseline files: every field as one of the two
\* invocations writes it, as another invocation writes it, or absent from the
\* block (a string left empty, an int left 0).
BaselineMetas ==
    {[ valid |-> TRUE, interface |-> i, filter |-> f, os |-> o, git_sha |-> g,
       threads |-> t, bpf_buffer_size |-> b, duration_sec |-> d,
       warmup_sec |-> w, traffic_mode |-> m, traffic_target |-> tt,
       traffic_rate |-> r ] :
        i \in {"eth0", "en0"}, f \in {"", "icmp", "none"},
        o \in {"Linux", "Darwin"}, g \in {"abc123", "def456"},
        t \in {0, 4}, b \in {131072, 4096}, d \in {0, 20}, w \in {0, 2},
        m \in {"", "icmp", "none"}, tt \in {"", "8.8.8.8"}, r \in {0, 50}}

ValidateCalls ==
    {[ fn |-> "regression_validate_metadata",
       baseline |-> [ZeroBaseline EXCEPT !.valid = TRUE, !.metadata = bm],
       current_meta |-> cm, done |-> FALSE, ret |-> FALSE, error_msg |-> "" ] :
        bm \in BaselineMetas \cup {ZeroMeta}, cm \in {ReferenceMeta, PlainMeta}}

\* regression_validate_metadata(&baseline, current_meta, error_msg, 256) with
\* error_msg zeroed by the caller
Call_validate_metadata ==
    /\ call.fn = "regression_validate_metadata" /\ ~call.done
    /\ LET r == regression_validate_metadata(call.baseline, call.current_meta)
       IN  call' = [call EXCEPT !.done = TRUE, !.ret = r.ret,
                                !.error_msg = r.error_msg]
    /\ UNCHANGED <<cfgvars, judgevars, heap, envvars, mainvars, poolvars, workervars, g_metrics>>

\* fprintf of a non-negative double with %.2f (scale 100), %.3f (scale 1000)
\* or %.4f (scale 10000): the decimal nearest to it, as strtod reads it back
FormatDecimal(x, scale) ==
    LET r == Reduce(x)
    IN  [num |-> (2 * r.num * scale + r.den) \div (2 * r.den), den |-> scale]

\* the metadata block a run with the metadata meta writes (lines 694-706)
MetaBlock(meta) == [f \in DOMAIN meta \ {"valid"} |-> meta[f]]

\* metrics_snapshot_json lines 633-634: pps and mbps of the file, computed
\* from capture_elapsed_sec; mbps is bytes per second / (1024 * 1024)
json_pps(snap) ==
    IF capture_elapsed(snap) > 0
      THEN LET per_us == Reduce([num |-> SEC_US, den |-> capture_elapsed(snap)])
           IN  Reduce([num |-> snap.pkts_processed * per_us.num, den |-> per_us.den])
      ELSE Double(0)

json_mbps(snap) ==
    IF capture_elapsed(snap) > 0
      THEN LET per_us == Reduce([num |-> SEC_US, den |-> capture_elapsed(snap)])
               bytes_per_sec == Reduce([num |-> snap.bytes_processed * per_us.num,
                                        den |-> per_us.den])
           IN  Reduce([num |-> bytes_per_sec.num,
                       den |-> bytes_per_sec.den * 1024 * 1024])
      ELSE Double(0)

\* metrics_snapshot_json: the file written for a snapshot, with the keys that
\* regression_load_baseline looks for.  elapsed_sec runs to the snapshot time.
metrics_snapshot_json(snap, meta) ==
    [ exists |-> TRUE,
      json |->
        [ elapsed_sec |->
            FormatDecimal([num |-> IF snap.start_time_ns > 0
                                     THEN metrics_now_ns - snap.start_time_ns ELSE 0,
                           den |-> SEC_US], 1000),
          captured |-> snap.pkts_captured,
          processed |-> snap.pkts_processed,
          rate_pps |-> FormatDecimal(json_pps(snap), 100),
          bytes |-> [captured |-> snap.bytes_captured,
                     processed |-> snap.bytes_processed],
          rate_mbps |-> FormatDecimal(json_mbps(snap), 10000),
          queue_drops |-> snap.queue_drops,
          capture_drops |-> snap.capture_drops,
          p95 |-> metrics_percentile_ns(snap, 95, 100),
          metadata |-> MetaBlock(meta) ] ]

\* Snapshots of a run: nothing processed, three frames of 60 bytes, and
\* 1 MiB and 3 MiB processed, in a capture window of one or two seconds that
\* ended half a second before the snapshot.
ExportSnapshots ==
    {[ZeroMetrics EXCEPT !.pkts_captured = c[1], !.pkts_processed = c[1],
                         !.bytes_captured = c[2], !.bytes_processed = c[2],
                         !.start_time_ns = 1,
                         !.capture_end_time_ns = 1 + sec * SEC_US] :
        c \in {<<0, 0>>, <<3, 180>>, <<1000, 1048576>>, <<2000, 3145728>>},
        sec \in {1, 2}}

ExportCalls ==
    {[ fn |-> "metrics_snapshot_json", snapshot |-> snap, done |-> FALSE,
       file |-> NoFile, run |-> ZeroRun, loaded |-> [ret |-> -1, baseline |-> ZeroBaseline] ] :
        snap \in ExportSnapshots}

\* A run's snapshot is stored as the run's result (main lines 782-790) and
\* written by metrics_snapshot_json, and the file is loaded as a baseline
Call_snapshot_json ==
    /\ call.fn = "metrics_snapshot_json" /\ ~call.done
    /\ LET file == metrics_snapshot_json(call.snapshot, g_metadata)
       IN  call' = [call EXCEPT !.done = TRUE,
                                !.file = file,
                                !.run = run_metrics(call.snapshot),
                                !.loaded = regression_load_baseline("baseline.json", file)]
    /\ UNCHANGED <<cfgvars, judgevars, heap, envvars, mainvars, poolvars, workervars, g_metrics>>

\* ---- specifications ------------------------------------------------------
\* The pool: a source of IPv4/TCP frames and no warmup phase; a worker
\* handles a dequeued frame in one step.
Init ==
    /\ Start
    /\ num_runs \in {1, 2}
    /\ warmup_sec = 0
    /\ max_packets = 0
    /\ source = {TcpFrame}
    /\ traffic_mode = "none"
    /\ socket_down = FALSE
    /\ Ungated

Next ==
    \/ MainNoWarmup
    \/ \E w \in Workers : WorkerQueue(w) \/ W_process(w)
    \/ thread_pool_destroy_again

Spec == Init /\ [][Next]_vars

\* Worker threads and the main thread are scheduled fairly; a wake-up that
\* no signal caused is never owed to a waiting worker.
WorkerSteps(w) == W_top(w) \/ W_lock(w) \/ W_check(w) \/ W_process(w)

SpecLive ==
    /\ Init /\ [][Next]_vars
    /\ \A w \in Workers : WF_vars(WorkerSteps(w))
    /\ WF_vars(MainNoWarmup)

\* The pool's processed counter: pool->packets_processed++ is a load and a
\* store that another worker can come between; the rest of the handling of a
\* frame is one step.
InitCount == Init

NextCount ==
    \/ MainNoWarmup
    \/ \E w \in Workers : WorkerQueue(w) \/ W_parse(w) \/ W_count(w) \/ W_record(w)

SpecCount == InitCount /\ [][NextCount]_vars

\* The measurement pipeline: a source that delivers short and IPv4/TCP
\* frames, with or without warmup; a worker takes one step per shared access.
InitMeasure ==
    /\ Start
    /\ num_runs = 1
    /\ warmup_sec \in {0, 1}
    /\ max_packets = 0
    /\ source = {ShortFrame, TcpFrame}
    /\ traffic_mode = "none"
    /\ socket_down = FALSE
    /\ Ungated

NextMeasure ==
    \/ Main
    \/ \E w \in Workers : WorkerQueue(w) \/ WorkerRecord(w)

SpecMeasure == InitMeasure /\ [][NextMeasure]_vars

\* The latency histogram over two runs: a worker's metrics_observe_latency
\* is two steps, latency_count first and the bucket last.
InitHist ==
    /\ Start
    /\ num_runs = 2
    /\ warmup_sec = 0
    /\ max_packets = 0
    /\ source = {TcpFrame}
    /\ traffic_mode = "none"
    /\ socket_down = FALSE
    /\ Ungated

NextHist ==
    \/ MainNoWarmup
    \/ \E w \in Workers : WorkerQueue(w) \/ W_observe_count(w) \/ W_observe_bucket(w)

SpecHist == InitHist /\ [][NextHist]_vars

\* The recording steps over two runs: a worker takes one step per shared
\* access while the controller starts the second run.
InitOrder == InitHist

NextOrder ==
    \/ MainNoWarmup
    \/ \E w \in Workers : WorkerQueue(w) \/ WorkerRecord(w)

SpecOrder == InitOrder /\ [][NextOrder]_vars

\* The measurement controller: runs with or without warmup, a packet limit,
\* a traffic generator, a capture source that fails, and SIGINT/SIGTERM at
\* any moment; a worker handles a dequeued frame in one step.
InitControl ==
    /\ Start
    /\ num_runs = 2
    /\ warmup_sec \in {0, 1}
    /\ max_packets \in {0, 1}
    /\ source = {TcpFrame}
    /\ traffic_mode \in {"none", "icmp"}
    /\ socket_down \in {FALSE, TRUE}
    /\ Ungated

NextControl ==
    \/ Main
    \/ M_recv_error
    \/ signal_handler
    \/ \E w \in Workers : WorkerQueue(w) \/ W_process(w)

SpecControl == InitControl /\ [][NextControl]_vars

\* Library functions applied to bounded inputs, one call per behaviour; the
\* pool is idle and the metrics are freshly initialised.
InitLib ==
    /\ Booted
    /\ num_runs = 1
    /\ warmup_sec = 0
    /\ max_packets = 0
    /\ source = {}
    /\ traffic_mode = "none"
    /\ socket_down = FALSE
    /\ Ungated
    /\ call \in ObserveCalls \cup PercentileCalls \cup FilterCalls
                \cup ReceiveCalls \cup MedianCalls \cup ValidateCalls
                \cup ExportCalls \cup ParseCalls

NextLib ==
    \/ Call_observe_latency
    \/ Call_percentile
    \/ BPF_ld \/ BPF_jeq \/ BPF_ret
    \/ Call_receive_record \/ Call_receive_read
    \/ Call_median_double \/ Call_median_uint64
    \/ Call_validate_metadata
    \/ Call_snapshot_json
    \/ Call_packet_parse

SpecLib == InitLib /\ [][NextLib]_vars

\* Consecutive socket_receive_packet calls (macOS) on one capture handle: up
\* to MaxReceives calls and MaxReads kernel buffers of 1..MaxRecords records.
InitReceive ==
    /\ Booted
    /\ num_runs = 1
    /\ warmup_sec = 0
    /\ max_packets = 0
    /\ source = {}
    /\ traffic_mode = "none"
    /\ socket_down = FALSE
    /\ Ungated
    /\ call \in ReceiveSessions

NextReceive == S_call \/ S_record \/ S_read

SpecReceive == InitReceive /\ [][NextReceive]_vars

\* metrics_observe_latency called by the worker threads at the same time,
\* up to MaxCalls calls, on freshly initialised metrics.
InitObserve ==
    /\ Booted
    /\ num_runs = 1
    /\ warmup_sec = 0
    /\ max_packets = 0
    /\ source = {}
    /\ traffic_mode = "none"
    /\ socket_down = FALSE
    /\ Ungated
    /\ call = ObserveStart

NextObserve ==
    \E w \in Workers :
       O_call(w) \/ O_count(w) \/ O_sum(w) \/ O_load(w) \/ O_cas(w) \/ O_bucket(w)

SpecObserve == InitObserve /\ [][NextObserve]_vars

\* The judgement (lines 814-967) of the results of 1..MaxRuns configured runs,
\* of which the stop flag may have left the last ones unexecuted, with and
\* without a baseline file; the pool is idle, and the counters of the capture
\* loop play no part.
\* Results of one run against a baseline of 100 pps, 50 Mbps, p95 1000 ns:
\* the baseline's values, pps halved, pps at the threshold with Mbps below
\* it, and only the latency much higher.
RunKinds ==
    { [pps |-> Double(100), mbps |-> Double(50), p95_ns |-> 1000, pkts_processed |-> 100],
      [pps |-> Double(50), mbps |-> Double(50), p95_ns |-> 1000, pkts_processed |-> 50],
      [pps |-> Double(90), mbps |-> Double(44), p95_ns |-> 1000, pkts_processed |-> 90],
      [pps |-> Double(101), mbps |-> Double(50), p95_ns |-> 9000, pkts_processed |-> 150] }

\* Baseline files: none at the path, a text without any of the keys, one
\* whose rate and count are 0, one written by this invocation's
\* configuration, the same with another traffic_rate, one of the older format
\* without a metadata block, one without rate_pps, and one with the processed
\* count only.
BaselineFiles ==
    { NoFile,
      [exists |-> TRUE, json |-> [k \in {} |-> 0]],
      [exists |-> TRUE,
       json |-> [rate_pps |-> Double(0), processed |-> 0, rate_mbps |-> Double(50),
                 metadata |-> MetaBlock(CurrentMeta)]],
      [exists |-> TRUE,
       json |-> [rate_pps |-> Double(100), rate_mbps |-> Double(50), processed |-> 2000,
                 p95 |-> 1000,
                 metadata |-> MetaBlock(CurrentMeta)]],
      [exists |-> TRUE,
       json |-> [rate_pps |-> Double(100), rate_mbps |-> Double(50), processed |-> 2000,
                 p95 |-> 1000,
                 metadata |-> MetaBlock([CurrentMeta EXCEPT !.traffic_rate = 100])]],
      [exists |-> TRUE,
       json |-> [rate_pps |-> Double(100), rate_mbps |-> Double(50), processed |-> 2000,
                 p95 |-> 1000]],
      [exists |-> TRUE,
       json |-> [elapsed_sec |-> Double(20), processed |-> 2000, rate_mbps |-> Double(50),
                 p95 |-> 1000, metadata |-> MetaBlock(CurrentMeta)]],
      [exists |-> TRUE, json |-> [processed |-> 2000]] }

\* the state at line 814: the runs are over and the workers wait for work
Aggregating ==
    /\ thread_pool = 1
    /\ clock = 1
    /\ traffic_pid = -1
    /\ mainpc = "aggregate"
    /\ run_idx = Len(run_results)
    /\ warmup_complete = FALSE
    /\ run_is_running = 0
    /\ is_running = (IF Len(run_results) = num_runs THEN 1 ELSE 0)
    /\ packets_captured = 0
    /\ seq = 0
    /\ pkt = NoFrame
    /\ enq_ret = 0
    /\ run_snapshot = ZeroMetrics
    /\ aggregate = NoAggregate
    /\ exit_code = 0
    /\ report = {}
    /\ queue = <<>>
    /\ queue_size = 0
    /\ pool_is_running = 1
    /\ queue_lock = FREE
    /\ pool_packets_processed = 0
    /\ pool_freed = FALSE
    /\ cleanup_freed = 0
    /\ freed_touched = FALSE
    /\ wpc = [w \in Workers |-> "waiting"]
    /\ item = [w \in Workers |-> NoFrame]
    /\ wtmp = [w \in Workers |-> 0]
    /\ g_metrics = ZeroMetrics
    /\ heap = <<>>
    /\ call = NoCall

InitJudge ==
    /\ num_runs \in 1..MaxRuns
    /\ run_results \in UNION {[1..l -> RunKinds] : l \in 0..num_runs}
    /\ warmup_sec = 1
    /\ max_packets = 0
    /\ source = {}
    /\ traffic_mode = "icmp"
    /\ socket_down = FALSE
    /\ min_packets \in {0, MIN_PACKETS_DEFAULT}
    /\ baseline_path \in {"", "baseline.json"}
    /\ baseline_file \in (IF baseline_path = "" THEN {NoFile} ELSE BaselineFiles)
    /\ fail_on_regression \in {0, 1}
    /\ regression_threshold = REGRESSION_THRESHOLD_DEFAULT
    /\ g_metadata = CurrentMeta
    /\ Aggregating

NextJudge == M_aggregate

SpecJudge == InitJudge /\ [][NextJudge]_vars

\* ---- properties -----------------------------------------------------------
\* C1: pkts_processed never exceeds pkts_captured, in the live counters and
\* in the run's snapshot
C1_ProcessedLeCaptured ==
    /\ g_metrics.pkts_processed <= g_metrics.pkts_captured
    /\ run_snapshot.pkts_processed <= run_snapshot.pkts_captured

\* the positions of a worker between metrics_is_active() and the end of
\* metrics_inc_processed
Recording == {"ether", "proto", "latency", "processed"}

\* C2: no frame received before the warmup->measure edge is recorded in the
\* ethertype, L4, latency or processed counters
C2_WarmupDiscarded ==
    [][ \A w \in Workers :
          (wpc[w] \in Recording /\ g_metrics' # g_metrics /\ wpc'[w] # wpc[w])
            => ~item[w].warm ]_vars

\* C10: during measurement, when no worker is recording a frame, the four
\* ethertype counters add up to pkts_processed
C10_EthertypeSum ==
    (metrics_is_active(g_metrics) /\ \A w \in Workers : wpc[w] \notin Recording)
      => g_metrics.ether_ipv4 + g_metrics.ether_ipv6 + g_metrics.ether_arp
           + g_metrics.ether_other = g_metrics.pkts_processed

\* C3: an enqueue that finds the queue holding max_queue_size items leaves
\* the queue and queue_size as they are, unlocks, then adds exactly 1 to
\* queue_drops and returns -1; none of its steps waits for a worker.
C3_FullQueueDrops ==
    /\ [][ /\ (mainpc = "enq_body" /\ Len(queue) = MaxQueue /\ mainpc' # mainpc)
              => /\ queue' = queue /\ queue_size' = queue_size
                 /\ queue_lock' = FREE /\ mainpc' = "enq_drop"
           /\ (mainpc = "enq_drop" /\ mainpc' # mainpc)
              => /\ queue' = queue /\ queue_size' = queue_size
                 /\ g_metrics'.queue_drops = g_metrics.queue_drops + 1
                 /\ enq_ret' = -1 /\ mainpc' = "loop_top" ]_vars
    /\ [](mainpc = "enq_body" /\ Len(queue) = MaxQueue => ENABLED M_enq_full)
    /\ [](mainpc = "enq_drop" => ENABLED M_enq_drop)

\* C3 witness: an enqueue on a full queue has returned -1 and counted a drop
C3_Witness ==
    /\ mainpc = "loop_top" /\ enq_ret = -1
    /\ g_metrics.queue_drops >= 1 /\ Len(queue) = MaxQueue

\* C4: the queue never holds more than its capacity, and queue_size is the
\* number of linked items
C4_QueueBounded ==
    /\ 0 <= queue_size /\ queue_size <= MaxQueue
    /\ (~pool_freed => queue_size = Len(queue))

\* C4 witness: the queue is at capacity while a worker holds a frame
C4_Witness ==
    /\ queue_size = MaxQueue
    /\ \E w \in Workers : item[w] # NoFrame

\* C5: a worker that unlinks a frame takes one that was enqueued before every
\* frame still queued, so frames leave the queue in the order they entered
C5_FifoOrder ==
    [][ \A w \in Workers :
          (item'[w] # item[w] /\ item'[w] # NoFrame)
            => /\ item'[w] = Head(queue)
               /\ \A i \in 1..Len(queue') : item'[w].id < queue'[i].id
               /\ \A v \in Workers : item[v] # NoFrame => item[v].id < item'[w].id ]_vars

\* C5 witness: two workers hold frames while a later frame is queued
C5_Witness ==
    /\ \A w \in Workers : item[w] # NoFrame
    /\ queue # <<>>

\* C6: when the pool has been destroyed, no frame was freed from the queue
\* without a worker having processed it
C6_ShutdownDrains == mainpc = "done" => cleanup_freed = 0

\* C7: once thread_pool_destroy has cleared the flag and broadcast, every
\* worker leaves its loop and the joins complete
C7_ShutdownTerminates ==
    (pool_is_running = 0) ~> (mainpc = "done" /\ \A w \in Workers : wpc[w] = "exited")

\* C7 witness: shutdown finds one worker blocked on the condition variable,
\* and another one working on a frame
C7_Witness ==
    /\ mainpc = "destroy_flag"
    /\ \E w \in Workers : wpc[w] = "waiting"
    /\ \E w \in Workers : wpc[w] = "parse"

\* C8: a second thread_pool_destroy on the same pool touches nothing that the
\* first one released
C8_DestroyIdempotent == ~freed_touched

\* C9: a worker unlinks the head only when the queue is not empty and the
\* pool is running; on an empty queue of a running pool it goes (back) to
\* waiting, which it leaves only to take the lock and test again;
\* queue_size is never negative
C9_DequeueBlocks ==
    /\ [][ \A w \in Workers :
             /\ (item'[w] # item[w] /\ item'[w] # NoFrame)
                  => /\ queue # <<>> /\ pool_is_running = 1
                     /\ wpc[w] = "check" /\ queue_lock = w
             /\ (wpc[w] = "check" /\ queue = <<>> /\ pool_is_running = 1
                   /\ wpc'[w] # wpc[w])
                  => wpc'[w] = "waiting" /\ item'[w] = NoFrame
             /\ (wpc[w] = "waiting" /\ wpc'[w] # wpc[w])
                  => wpc'[w] = "lock" ]_vars
    /\ [](queue_size >= 0)

\* C9 witness: a worker woken on an empty queue of a running pool is waiting
\* again while another worker has unlinked a frame
C9_Witness ==
    /\ pool_is_running = 1 /\ queue = <<>>
    /\ \E w \in Workers : wpc[w] = "waiting"
    /\ \E w \in Workers : wpc[w] = "parse"

\* C11: when no metrics_observe_latency and no metrics_init is in progress,
\* the latency_histogram buckets add up to latency_count
C11_HistogramSum ==
    (/\ \A w \in Workers : wpc[w] # "histogram"
     /\ mainpc \notin {"run_stores", "edge_stores"})
      => HistogramSum(g_metrics, METRICS_HISTOGRAM_BUCKETS - 1) = g_metrics.latency_count

\* the bucket the latency contract assigns to a latency: 0 below one
\* microsecond, otherwise floor(log2(microseconds)) + 1, at most the last
RECURSIVE FloorLog2(_)
FloorLog2(n) == IF n <= 1 THEN 0 ELSE 1 + FloorLog2(n \div 2)

ContractBucket(ns) ==
    IF ns \div 1000 = 0 THEN 0
    ELSE IF FloorLog2(ns \div 1000) + 1 < METRICS_HISTOGRAM_BUCKETS - 1
           THEN FloorLog2(ns \div 1000) + 1
           ELSE METRICS_HISTOGRAM_BUCKETS - 1

\* C12: metrics_observe_latency(ns) adds 1 to the bucket the contract
\* assigns to ns and to no other bucket
C12_BucketContract ==
    (call.fn = "metrics_observe_latency" /\ call.done)
      => \A i \in 0..(METRICS_HISTOGRAM_BUCKETS - 1) :
           histogram_at(g_metrics, i) =
             IF i = ContractBucket(call.latency_ns) THEN 1 ELSE 0

\* the first bucket whose cumulative count reaches p * latency_count, the
\* product not rounded
RECURSIVE FirstReaching(_, _, _, _)
FirstReaching(snapshot, pnum, pden, i) ==
    IF i >= METRICS_HISTOGRAM_BUCKETS - 1 THEN i
    ELSE IF HistogramSum(snapshot, i) * pden >= pnum * snapshot.latency_count
           THEN i
           ELSE FirstReaching(snapshot, pnum, pden, i + 1)

\* C13: metrics_percentile_ns returns 0 for an empty histogram and
\* otherwise the midpoint of the first bucket whose cumulative count is at
\* least p * latency_count
C13_PercentileBucket ==
    (call.fn = "metrics_percentile_ns" /\ call.done)
      => call.ret = IF call.snapshot.latency_count = 0 THEN 0
                    ELSE BucketMidpoint(FirstReaching(call.snapshot, call.pnum,
                                                      call.pden, 0))

\* C14: the Linux and the macOS ICMP filter accept a frame, with a non-zero
\* capture length, exactly when it is IPv4 with protocol ICMP or IPv6 with
\* next header ICMPv6, and return 0 otherwise
C14_IcmpFilter ==
    (call.fn = "icmp_filter" /\ call.done)
      => (call.ret # 0 <=>
            \/ call.frame.ethertype = ETHER_IPV4 /\ call.frame.byte23 = PROTO_ICMP
            \/ call.frame.ethertype = ETHER_IPV6 /\ call.frame.byte20 = PROTO_ICMPV6)

\* C18: when socket_receive_packet emits a record whose captured length
\* exceeds the caller's buffer, it returns buffer_size bytes and has added 1
\* to capture_drops
C18_TruncationCounted ==
    (/\ call.fn = "socket_receive_packet" /\ call.done
     /\ call.bh_caplen > call.buffer_size)
      => call.ret = call.buffer_size /\ g_metrics.capture_drops = 1

\* the values of a call in ascending order
Ascending(arr) == SortSeq(arr, LAMBDA a, b : a < b)

\* C20: the aggregate of n per-run values is their median: the middle one of
\* the sorted values for odd n, the mean of the two central ones for even
\* n, for p95_ns (median_uint64) as for pps and mbps (median_double)
C20_Median ==
    (call.fn \in {"median_double", "median_uint64"} /\ call.done)
      => IF call.n % 2 = 1
           THEN call.ret.num = Ascending(call.arr)[call.n \div 2 + 1] * call.ret.den
           ELSE 2 * call.ret.num =
                  (Ascending(call.arr)[call.n \div 2]
                     + Ascending(call.arr)[call.n \div 2 + 1]) * call.ret.den

\* C15: in every run metrics_start has been called when metrics_stop_capture
\* is: behind the stamp of capture end the metrics are started, and the
\* start is not later than the end; metrics_start is not called twice in a run
C15_StartBeforeStop ==
    /\ [](mainpc \in {"drain", "snapshot"}
           => /\ metrics_is_active(g_metrics)
              /\ g_metrics.start_time_ns <= g_metrics.capture_end_time_ns)
    /\ [][ (g_metrics'.start_time_ns # g_metrics.start_time_ns
              /\ g_metrics'.start_time_ns > 0)
            => g_metrics.start_time_ns = 0 ]_vars

\* C16: the traffic generator is stopped only after capture end has been
\* stamped, the stamp is taken before the drain sleep, and the capture time
\* of a run is not longer than the measurement period
C16_CaptureWindowOnly ==
    /\ [][ (traffic_pid > 0 /\ traffic_pid' <= 0)
            => g_metrics.capture_end_time_ns > 0 ]_vars
    /\ [](mainpc = "drain" => g_metrics.capture_end_time_ns = clock)
    /\ [](mainpc = "snapshot" /\ metrics_is_active(g_metrics)
           => g_metrics.capture_end_time_ns - g_metrics.start_time_ns
                <= actual_measure_sec * SEC_US)

\* C17: when socket_receive_packet returns a negative value the controller
\* ends the capture loop of the run instead of going round it again
C17_CaptureErrorEndsRun ==
    [][ (mainpc = "recv" /\ socket_down /\ mainpc' # mainpc)
          => (mainpc' = "gen_stop" \/ run_is_running' = 0) ]_vars

\* the positions of the main thread from the exit of the capture loop to the
\* run's snapshot
RunExit == {"gen_stop", "stop_capture", "drain", "snapshot"}

\* C19: with the stop flag set, the capture loop exits at its next
\* condition check and nothing is enqueued from then on, no further run is
\* started, and the run goes on to stop the traffic generator, stamp capture
\* end and take its snapshot
C19_StopFlag ==
    /\ [][ /\ (is_running = 0 /\ mainpc = "loop_top" /\ mainpc' # mainpc)
               => mainpc' = "gen_stop"
           /\ (is_running = 0 /\ mainpc = "run_check" /\ mainpc' # mainpc)
               => mainpc' = "aggregate"
           /\ (mainpc \in RunExit \cup {"run_check", "aggregate"})
               => Len(queue') <= Len(queue)
           /\ (mainpc = "gen_stop" /\ mainpc' # mainpc)
               => traffic_pid' = -1 /\ mainpc' = "stop_capture"
           /\ (mainpc = "stop_capture" /\ mainpc' # mainpc)
               => g_metrics'.capture_end_time_ns = clock /\ mainpc' = "drain"
           /\ (mainpc = "drain" /\ mainpc' # mainpc) => mainpc' = "snapshot"
           /\ (mainpc = "snapshot" /\ mainpc' # mainpc)
               => run_snapshot' = g_metrics ]_vars
    /\ [](mainpc = "loop_top" => ENABLED (M_loop_top \/ M_loop_edge))
    /\ [](mainpc = "gen_stop" => ENABLED M_gen_stop)
    /\ [](mainpc = "stop_capture" => ENABLED M_stop_capture)
    /\ [](mainpc = "drain" => ENABLED M_drain)
    /\ [](mainpc = "snapshot" => ENABLED M_snapshot)

\* C19 witness: the signal ended the first of two runs while its traffic
\* generator was running; the run was stamped and its snapshot taken, and the
\* second run is not started
C19_Witness ==
    /\ is_running = 0 /\ mainpc = "aggregate"
    /\ num_runs = 2 /\ run_idx = 1
    /\ traffic_mode = "icmp" /\ traffic_pid = -1
    /\ run_snapshot.capture_end_time_ns > 0

\* a frame too short for the header its ethertype announces
Malformed(f) ==
    \/ f.len < ETH_HDR_LEN
    \/ f.ethertype = ETHER_IPV4 /\ f.len < ETH_HDR_LEN + IPV4_HDR_LEN

\* C29: a worker that has taken a malformed frame past the decoder while the
\* metrics were active has counted it in parse_errors
C29_MalformedCounted ==
    \A w \in Workers :
       (wpc[w] \in {"latency", "processed"} /\ Malformed(item[w]))
          => g_metrics.parse_errors >= 1

\* C30: the frame whose latency a worker is about to observe carries a
\* capture_ts_ns that was written when the capture loop emitted the frame
C30_StampWritten ==
    \A w \in Workers : wpc[w] = "latency" => item[w].stamped

\* the judgement is made: main is past line 967
Judged == mainpc \in {"destroy_lock", "destroy_flag", "join", "cleanup", "done"}

\* C28: with one configured run the process goes on past the store of the
\* run's results, and at the judgement the one RunResult holds the pps, mbps,
\* p95 and processed count of the run's snapshot
C28_SingleRunStored ==
    num_runs = 1 =>
       /\ mainpc # "crashed"
       /\ (mainpc = "aggregate" \/ Judged) =>
             run_results = <<run_metrics(run_snapshot)>>

\* the sum of pkts_processed over the runs that stored a result
RECURSIVE ProcessedSum(_)
ProcessedSum(results) ==
    IF results = <<>> THEN 0
    ELSE Head(results).pkts_processed + ProcessedSum(Tail(results))

\* what the judgement reports once it has opened the baseline
BaselineLines ==
    {"Failed to load baseline file", "BASELINE METADATA MISMATCH",
     "Baseline incompatible", "REGRESSION COMPARISON RESULTS",
     "PPS REGRESSION", "PPS OK", "Mbps REGRESSION", "Mbps OK",
     "PERFORMANCE REGRESSION DETECTED", "ALL METRICS WITHIN THRESHOLD"}

\* C21: when the processed counts of the runs sum to less than min_packets
\* the judgement reports an insufficient sample, sets exit code 3 and does not
\* open the baseline, whatever --baseline and --fail-on-regression say; when
\* the sum reaches min_packets the exit code is not 3
C21_InsufficientSample ==
    Judged =>
       /\ ProcessedSum(run_results) < min_packets =>
             /\ exit_code = 3
             /\ "INSUFFICIENT SAMPLE" \in report
             /\ report \cap BaselineLines = {}
       /\ ProcessedSum(run_results) >= min_packets => exit_code # 3

C21_Witness ==
    /\ Judged
    /\ ProcessedSum(run_results) \in 1..(min_packets - 1)
    /\ baseline_path # "" /\ baseline_file.exists
    /\ fail_on_regression = 1
    /\ exit_code = 3

\* the baseline the judgement loads
LoadedBaseline == regression_load_baseline(baseline_path, baseline_file).baseline

\* max(1, ceil(0.6 * runs))
PersistenceThreshold(runs) ==
    IF (6 * runs + 9) \div 10 < 1 THEN 1 ELSE (6 * runs + 9) \div 10

\* metric < baseline * (1 - theta), theta = regression_threshold
BelowBaseline(metric, baseline_metric) ==
    metric.num * baseline_metric.den * regression_threshold.den
       < baseline_metric.num * (regression_threshold.den - regression_threshold.num)
           * metric.den

\* the result slots 1..num_runs whose pps (mbps) is below the baseline's by
\* more than theta; a run that did not execute counts with the metric 0 that
\* its slot holds
PpsBelow == {i \in 1..num_runs : BelowBaseline(RunSlot(i).pps, LoadedBaseline.pkts_processed_per_sec)}

MbpsBelow == {i \in 1..num_runs : BelowBaseline(RunSlot(i).mbps, LoadedBaseline.mbps_processed)}

\* the judgement compared the runs with the baseline
Compared == Judged /\ "REGRESSION COMPARISON RESULTS" \in report

LatencyAbove ==
    {i \in 1..num_runs :
       RunSlot(i).p95_ns * regression_threshold.den
          > LoadedBaseline.latency_p95_ns
              * (regression_threshold.den + regression_threshold.num)}

\* C23: when the runs are compared with the baseline, a regression is
\* detected iff pps, mbps or the p95 latency is regressed in at least
\* ceil(0.6 * runs) runs, and the exit code is 2 iff it is detected and
\* --fail-on-regression is given.  (A run's drop rate, the fourth judged
\* metric, is not among the values kept per run.)
C23_AnyMetric ==
    Compared =>
       LET regressed ==
             \/ Cardinality(PpsBelow) >= PersistenceThreshold(num_runs)
             \/ Cardinality(MbpsBelow) >= PersistenceThreshold(num_runs)
             \/ Cardinality(LatencyAbove) >= PersistenceThreshold(num_runs)
       IN  /\ "PERFORMANCE REGRESSION DETECTED" \in report <=> regressed
           /\ exit_code = 2 <=> (regressed /\ fail_on_regression = 1)

\* C26: when the sample is sufficient, a baseline path is given and the
\* baseline cannot be loaded, the failure is reported, the runs are not
\* compared and the exit code is 1
C26_LoadFailureExit ==
    ( /\ Judged
      /\ ProcessedSum(run_results) >= min_packets
      /\ baseline_path # ""
      /\ regression_load_baseline(baseline_path, baseline_file).ret # 0 )
    => /\ "Failed to load baseline file" \in report
       /\ "REGRESSION COMPARISON RESULTS" \notin report
       /\ exit_code = 1

\* the sample is sufficient, the baseline loads and its metadata differs from
\* this invocation's in a must-match field that validation tests
Incompatible ==
    /\ ProcessedSum(run_results) >= min_packets
    /\ baseline_path # ""
    /\ regression_load_baseline(baseline_path, baseline_file).ret = 0
    /\ ~regression_validate_metadata(LoadedBaseline, g_metadata).ret

\* C27: when the sample is sufficient, the baseline loads and metadata
\* validation fails, the runs are not compared, no verdict is reported, and
\* the exit code is 4 with --fail-on-regression and 0 without
C27_MismatchExit ==
    (Judged /\ Incompatible) =>
       /\ report \cap {"REGRESSION COMPARISON RESULTS", "PPS REGRESSION", "PPS OK",
                       "Mbps REGRESSION", "Mbps OK",
                       "PERFORMANCE REGRESSION DETECTED",
                       "ALL METRICS WITHIN THRESHOLD"} = {}
       /\ "BASELINE METADATA MISMATCH" \in report
       /\ exit_code = (IF fail_on_regression = 1 THEN 4 ELSE 0)

\* an incompatible baseline against which every run is below the pps
\* threshold, judged without --fail-on-regression
C27_Witness ==
    /\ Judged /\ Incompatible
    /\ fail_on_regression = 0
    /\ num_runs >= 2 /\ Cardinality(PpsBelow) = num_runs
    /\ exit_code = 0

\* the fields of the metadata block by class
MustMatchFields ==
    {"filter", "threads", "warmup_sec", "duration_sec", "traffic_mode",
     "traffic_target", "traffic_rate"}

WarnOnlyFields == {"interface", "os", "bpf_buffer_size", "git_sha"}

\* regression_validate_metadata has returned
Validated == call.fn = "regression_validate_metadata" /\ call.done

\* C24: when the baseline has a metadata block that differs from the current
\* metadata in a must-match field, also when the baseline's value is 0 or
\* empty, regression_validate_metadata returns false and writes an error
\* message
C24_MustMatch ==
    ( /\ Validated
      /\ call.baseline.metadata.valid
      /\ \E f \in MustMatchFields :
            call.baseline.metadata[f] # call.current_meta[f] )
    => (~call.ret /\ call.error_msg # "")

\* C25: when the seven must-match fields agree, regression_validate_metadata
\* returns true and leaves the error message unwritten, whichever warn-only
\* fields differ
C25_WarnOnly ==
    ( /\ Validated
      /\ \A f \in MustMatchFields :
            call.baseline.metadata[f] = call.current_meta[f] )
    => (call.ret /\ call.error_msg = "")

\* the must-match fields agree and all four warn-only fields differ
C25_Witness ==
    /\ Validated
    /\ \A f \in MustMatchFields : call.baseline.metadata[f] = call.current_meta[f]
    /\ \A f \in WarnOnlyFields : call.baseline.metadata[f] # call.current_meta[f]
    /\ call.ret /\ call.error_msg = ""

\* compare two doubles written as fractions
SameDouble(a, b) == a.num * b.den = b.num * a.den

\* the pps, mbps and p95 values of the runs that executed
ExecutedPps == [i \in 1..Len(run_results) |-> run_results[i].pps]

ExecutedMbps == [i \in 1..Len(run_results) |-> run_results[i].mbps]

ExecutedP95 == [i \in 1..Len(run_results) |-> run_results[i].p95_ns]

\* C38: the medians of pps, mbps and p95 and the total processed count are
\* those of the runs that executed, also when the stop flag ended the
\* invocation before all configured runs had executed
C38_ExecutedRunsOnly ==
    (Judged /\ Len(run_results) >= 1) =>
       /\ SameDouble(aggregate.median_pps,
                     median_double_of(ExecutedPps, Len(run_results)))
       /\ SameDouble(aggregate.median_mbps,
                     median_double_of(ExecutedMbps, Len(run_results)))
       /\ aggregate.median_p95 = median_uint64(ExecutedP95, Len(run_results)).num
       /\ total_pkts_processed = ProcessedSum(run_results)

\* C36: the p95_ns stored for a run is the 95th percentile of the run's
\* snapshot, metrics_percentile_ns(snapshot, 0.95), which is also the p95 of
\* the metrics JSON
C36_RunP95 ==
    (mainpc = "run_check" /\ Len(run_results) >= 1) =>
       run_results[Len(run_results)].p95_ns
          = metrics_percentile_ns(run_snapshot, 95, 100)

\* a run's snapshot has been stored, exported and loaded back
Exported == call.fn = "metrics_snapshot_json" /\ call.done

\* two doubles differ by at most one unit of the decimal place 1/scale
Within(a, b, scale) ==
    LET x == Reduce(a)
        y == Reduce(b)
        diff == x.num * y.den - y.num * x.den
    IN  (IF diff < 0 THEN -diff ELSE diff) * scale <= x.den * y.den

\* the pps of the run and of the baseline loaded from its file agree up to
\* the two decimals of the file
PpsRoundTrip ==
    Exported =>
       Within(call.run.pps, call.loaded.baseline.pkts_processed_per_sec, 100)

\* C37: a run's mbps and the rate_mbps that is written for the same snapshot
\* and loaded as the baseline are the same quantity: they agree up to the
\* four decimals of the file, as pps does up to two
C37_MbpsRoundTrip ==
    Exported =>
       /\ Within(call.run.pps, call.loaded.baseline.pkts_processed_per_sec, 100)
       /\ Within(call.run.mbps, call.loaded.baseline.mbps_processed, 10000)

\* the frames the capture loop, the queue or a worker holds
HeldBy(w) == IF item[w].id # 0 THEN {item[w].id} ELSE {}

Held ==
    (IF pkt.id # 0 THEN {pkt.id} ELSE {})
       \cup {queue[i].id : i \in 1..Len(queue)}
       \cup UNION {HeldBy(w) : w \in Workers}

\* C31: every frame created by the capture loop is held by at most one
\* worker and destroyed exactly once: a frame that nobody holds any more
\* (dropped at a full queue, handled by a worker, or left in the queue at
\* shutdown) has been freed, a frame that is still held has not, and none is
\* freed twice
C31_FrameLifecycle ==
    /\ \A w, v \in Workers : w # v => HeldBy(w) \cap HeldBy(v) = {}
    /\ \A w \in Workers : HeldBy(w) \cap {queue[i].id : i \in 1..Len(queue)} = {}
    /\ \A id \in DOMAIN heap :
          /\ heap[id] <= 1
          /\ id \in Held => heap[id] = 0
          /\ id \notin Held => heap[id] = 1

\* the parts of C31 that hold of the code: no frame is held twice, freed
\* twice or freed while it is held, and a frame dropped at a full queue or
\* left in the queue at shutdown is freed
NoDoubleFree ==
    /\ \A w, v \in Workers : w # v => HeldBy(w) \cap HeldBy(v) = {}
    /\ \A id \in DOMAIN heap : heap[id] <= 1 /\ (id \in Held => heap[id] = 0)

\* no worker is handling a frame
AllIdle == \A w \in Workers : wpc[w] \in {"top", "lock", "check", "waiting", "exited"}

\* C39: once all workers are idle, the pool's packets_processed (what
\* thread_pool_get_processed_count returns) is the number of frames the
\* workers have dequeued and processed.  In the first run, which starts the
\* metrics before the first frame arrives, that number is the atomic counter
\* pkts_processed.
C39_ProcessedCount ==
    (run_idx = 0 /\ AllIdle) => pool_packets_processed = g_metrics.pkts_processed

\* the frame id is in the queue
InQueue(id) == \E i \in 1..Len(queue) : queue[i].id = id

\* while the pool is running and the queue is not empty, some worker is not
\* blocked in pthread_cond_wait: it was woken by a signal, or it is on its way
\* to the queue
NoLostWakeup ==
    (pool_is_running = 1 /\ queue # <<>>) => \E w \in Workers : wpc[w] # "waiting"

\* the pool is running: it has not been shut down and the process is alive
PoolRunning == pool_is_running = 1 /\ Alive

\* C40: no wake-up is lost, and with fairly scheduled worker threads every
\* frame in the queue is eventually dequeued by a worker, as long as the
\* pool is running
C40_NoLostWakeup ==
    /\ []NoLostWakeup
    /\ \A id \in 1..MaxFrames :
          (InQueue(id) /\ PoolRunning)
             ~> ((\E w \in Workers : item[w].id = id) \/ ~PoolRunning)

\* a frame is in the queue while one worker is still blocked and the other
\* has been woken by the signal of thread_pool_enqueue
C40_Witness ==
    /\ PoolRunning /\ queue # <<>>
    /\ \E w, v \in Workers : wpc[w] = "waiting" /\ wpc[v] = "lock"

\* the recording steps of one worker follow the order of thread_worker:
\* ethertype, then the L4 protocol, then the latency, then inc_processed;
\* the first of them is reached only from the metrics_is_active() test, and
\* only when the test found the metrics active
RecordedInOrder ==
    \A w \in Workers :
       wpc'[w] # wpc[w] =>
         /\ wpc'[w] \in Recording =>
              \/ wpc[w] = "active" /\ metrics_is_active(g_metrics)
                   /\ wpc'[w] \in {"ether", "latency"}
              \/ wpc[w] = "ether" /\ wpc'[w] \in {"proto", "latency"}
              \/ wpc[w] = "proto" /\ wpc'[w] = "latency"
              \/ wpc[w] = "latency" /\ wpc'[w] = "processed"
         /\ wpc[w] = "processed" => wpc'[w] = "top"

\* the order of the recording steps alone
RecordingOrder == [][RecordedInOrder]_vars

\* while no metrics_init intervenes, a frame's latency is observed before the
\* frame is counted as processed
ProcessedLeObserved == g_metrics.pkts_processed <= g_metrics.latency_count

\* C32: a worker records a frame in the order ethertype, L4, latency,
\* inc_processed and only after metrics_is_active() was true; and in every
\* state pkts_processed is at most latency_count
C32_RecordingOrder ==
    /\ [][RecordedInOrder]_vars
    /\ []ProcessedLeObserved

RECURSIVE SumOf(_)
SumOf(args) == IF args = <<>> THEN 0 ELSE Head(args) + SumOf(Tail(args))

\* the largest of the arguments, 0 when there is none
MaxOf(args) ==
    IF args = <<>> THEN 0
    ELSE CHOOSE v \in {args[i] : i \in 1..Len(args)} :
           \A i \in 1..Len(args) : args[i] <= v

\* every call of metrics_observe_latency has returned
ObserveDone == call.fn = "observe_threads" /\ \A w \in Workers : wpc[w] = "top"

\* C35: after concurrent metrics_observe_latency calls with arguments
\* v1..vn, latency_count is n, latency_sum_ns their sum and latency_max_ns
\* their maximum; and no step lowers latency_max_ns
C35_ConcurrentObserve ==
    /\ [](ObserveDone =>
            /\ g_metrics.latency_count = Len(call.args)
            /\ g_metrics.latency_sum_ns = SumOf(call.args)
            /\ g_metrics.latency_max_ns = MaxOf(call.args))
    /\ [][g_metrics'.latency_max_ns >= g_metrics.latency_max_ns]_vars

\* MaxCalls calls with the arguments 999, 1000 and 2000, in some order and
\* interleaving, have all returned
C35_Witness ==
    /\ ObserveDone /\ Len(call.args) = MaxCalls
    /\ g_metrics.latency_max_ns = 2000
    /\ g_metrics.latency_sum_ns = 3999

\* a thread whose argument is above the current maximum holds a stale
\* current_max: its compare-exchange fails and the loop runs again
StaleExchange ==
    \E w \in Workers :
       /\ wpc[w] = "obs_cas" /\ item[w].latency_ns > g_metrics.latency_max_ns
       /\ wtmp[w] # g_metrics.latency_max_ns

\* packet_parse has returned or crashed
Parsed == call.fn = "packet_parse" /\ call.done

\* every memcpy of packet_parse reads captured bytes only
ReadsInBounds == \A r \in call.ret.reads : InBounds(call.len, r[1], r[2])

\* C34: packet_parse reads captured bytes only: it accepts an IPv4 header
\* only if IHL >= 20 and 14 + IHL <= length, and copies a TCP or UDP header
\* only when the bytes that remain after the IPv4 header, counted without
\* wrap-around, are at least 20 or 8
C34_ParseInBounds ==
    Parsed =>
      /\ ~call.crashed /\ ReadsInBounds
      /\ call.ret.ipv4 =>
           /\ call.ihl * 4 >= IPV4_HDR_LEN
           /\ ETH_HDR_LEN + call.ihl * 4 <= call.len
      /\ call.ret.tcp => call.len - call.ret.l4_offset >= TCP_HDR_LEN
      /\ call.ret.udp => call.len - call.ret.l4_offset >= UDP_HDR_LEN

\* what holds of the code: the Ethernet header and the 20 bytes of the IPv4
\* header are read within the captured bytes
FixedHeadersInBounds ==
    Parsed =>
      /\ call.ret.ethernet => InBounds(call.len, 0, ETH_HDR_LEN)
      /\ call.ret.ipv4 => InBounds(call.len, ETH_HDR_LEN, IPV4_HDR_LEN)

\* a TCP header was copied from behind the captured bytes
OverRead == Parsed /\ call.ret.tcp /\ ~ReadsInBounds

\* the records returned from the present kernel buffer are its records
\* 1, 2, ... in buffer order, each once and each with a valid header, and
\* bpf_offset is the word-aligned start of the record after them
InBufferOrder ==
    call.fn = "receive_session" =>
      /\ \A i \in 1..Len(call.emitted) :
            call.emitted[i] = i /\ ValidHeader(call.bpf_buffer[i])
      /\ Len(call.emitted) <= Len(call.bpf_buffer)
      /\ call.bpf_buffer # <<>> =>
            call.bpf_offset = RecordStart(call.bpf_buffer, Len(call.emitted) + 1)

\* a read() is issued only when every record of the buffer has been
\* returned, or when the record at the offset has caplen = 0 or hdrlen = 0
ReadOnlyWhenUsedUp ==
    (call.fn = "receive_session" /\ call'.reads > call.reads) =>
       \/ Len(call.emitted) = Len(call.bpf_buffer)
          /\ call.bpf_offset >= call.bpf_data_len
       \/ ~ValidHeader(call.bpf_buffer[Len(call.emitted) + 1])

\* C33: consecutive socket_receive_packet calls return the valid records of
\* a kernel buffer in buffer order, each once, advancing by the word-aligned
\* hdrlen + caplen, and read again only at the end of the buffer or at a
\* record with caplen = 0 or hdrlen = 0, whose buffer is discarded
C33_RecordsInOrder ==
    /\ []InBufferOrder
    /\ [][ReadOnlyWhenUsedUp]_vars

\* both records of a kernel buffer of MaxRecords valid records have been
\* returned by two calls after one read
C33_Witness ==
    /\ call.fn = "receive_session" /\ call.pc = "idle"
    /\ Len(call.emitted) = MaxRecords /\ call.reads = 1 /\ call.calls = MaxRecords

\* a buffer is discarded at an invalid record that follows a returned one
DiscardedAtInvalid ==
    /\ call.fn = "receive_session" /\ call.pc = "entry"
    /\ Len(call.emitted) = 1 /\ Len(call.bpf_buffer) = 2
    /\ ~ValidHeader(call.bpf_buffer[2])

====
